---- MODULE Spec2Model ----
(***************************************************************************)
(* requests-counter: the credential and usage resolution engine.           *)
(*                                                                         *)
(*   - usage cache (lib/cache): loadCachedData / saveDataCache /           *)
(*     deleteCache over the single usage_cache row of one user;            *)
(*   - resolution orchestrator (lib/data-loader.ts): loadData;             *)
(*   - usage report builder (lib/github): buildDataFromGitHub;             *)
(*   - token lifecycle manager (lib/github-auth.ts):                       *)
(*     getValidGitHubAccessTokenForUser and the authorization callback.    *)
(*                                                                         *)
(* Every `await` of the source is a point where another request may run,   *)
(* so every handler is split into one action per awaited I/O operation.    *)
(* Time is in milliseconds since the Unix epoch, as Date.now() gives it.   *)
(* Request quantities are kept in hundredths (the report's two decimals).  *)
(***************************************************************************)
EXTENDS Integers, Sequences, FiniteSets, TLC

VARIABLES
    clock,        \* Date.now(), in ms
    ticks,        \* how often the clock has advanced (bounded)
    usage_cache,  \* the usage_cache row of the user: NULL or Some(row)
    ld,           \* loadData invocations: locals of each in-flight request
    loads,        \* number of loadData invocations started (bounded)
    users,        \* the github_* columns of the user's row in users
    github,       \* GitHub's authorization server: tokens issued / accepted
    gh,           \* getValidGitHubAccessTokenForUser invocations: locals
    cb,           \* the GET /api/auth/github/callback request: locals
    calls,        \* number of token-manager invocations started (bounded)
    account,      \* the user's row in users (settings) and its sessions rows
    web,          \* the PUT /api/settings or POST .../disconnect request: locals
    del,          \* the DELETE /api/account request: locals
    login,        \* the Twitch login callback request: locals
    rb,           \* a buildDataFromGitHub invocation: arguments and locals
    widget,       \* the OBS widget page: text of #title and of #value
    polls,        \* the widget's refresh calls: position and response
    env,          \* the Worker's SECRETS_ENCRYPTION_KEY_B64 binding
    rq,           \* a request to /api/*: path, position, effects so far
    sessions,     \* the rows of the sessions table of the user
    sr,           \* requests that carry a session cookie: locals
    obs,          \* users.obs_uuid of the user, and the UUIDs generated so far
    og,           \* OBS requests: regenerate and obs-data lookups, locals
    tbl,          \* the usage_cache table: the rows of all users
    me            \* a GET /api/me request: locals and response

vars == <<clock, ticks, usage_cache, ld, loads, users, github, gh, cb, calls,
          account, web, del, login, rb, widget, polls, env, rq,
          sessions, sr, obs, og, tbl, me>>
cacheVars == <<usage_cache, ld, loads>>
authVars == <<users, github, gh, cb, calls>>
accountVars == <<account, web, del, login>>
webVars == <<sessions, sr, obs, og, tbl, me>>
apiVars == <<tbl, me>>
sideVars == <<rb, widget, polls, env, rq, sessions, sr, obs, og, tbl, me>>
restVars == <<account, web, del, login, rb, widget, polls, env, rq,
              sessions, sr, obs, og, tbl, me>>

----------------------------------------------------------------------------
(* null / undefined: a nullable value is <<>> or <<v>>                      *)

NULL == <<>>
Some(v) == <<v>>
IsNull(x) == x = NULL
Val(x) == x[1]

----------------------------------------------------------------------------
(* D1: the user's row and the rows that reference it (migrations)           *)

\* UPDATE users SET ... WHERE id = ?: changes the row only if it exists
UpdateWhereId_anyRow(exists, row, newRow) == newRow
UpdateWhereId(exists, row, newRow) == IF exists THEN newRow ELSE row

\* INSERT INTO usage_cache / sessions: FOREIGN KEY (user_id) REFERENCES
\* users(id) rejects a row whose user does not exist
ForeignKeyHolds(exists) == exists

\* deleteCache: DELETE FROM usage_cache WHERE user_id = ?
deleteCache_keepsRow(row) == row
deleteCache(row) == NULL

----------------------------------------------------------------------------
(* Bounds of the model                                                      *)

StartClock == 1000000    \* Date.now() of the first request
MaxTicks == 2            \* clock advances explored, cache requests
MaxAuthTicks == 1        \* clock advances explored, token requests
MaxLoads == 2            \* loadData invocations explored
MaxCalls == 2            \* getValidGitHubAccessTokenForUser invocations explored
MaxIssued == 3           \* token pairs GitHub issues
MaxCallbacks == 1        \* authorization callbacks explored
MaxChanges == 1          \* account management requests explored
MaxLogins == 1           \* login callbacks explored
MaxPolls == 2            \* refresh calls of the widget explored
MaxRequests == 3         \* requests explored per key configuration
MaxSessions == 2         \* session tokens handed out
MaxUuids == 3            \* OBS UUIDs generated
MaxStatements == 4       \* statements run on the usage_cache table

LoadProcs == {1, 2}      \* overlapping loadData requests
CacheTickSteps == {1, 299999}   \* around CACHE_TTL_MS
AuthTickSteps == {59999, 60000} \* around ACCESS_TOKEN_EXPIRY_SAFETY_MS
TokenTickSteps == {1, 59999}     \* to the margin and 1 ms before it

----------------------------------------------------------------------------
(* Usage report builder: lib/github                                        *)

\* The UTC calendar date of an instant. The model's clock stays within
\* January 1970, so the date is the day count since the epoch.
UtcDate(ms) ==
    [year |-> 1970, month |-> 0, day |-> 1 + (ms \div (24 * 60 * 60 * 1000))]

IsLeapYear(y) == (y % 4 = 0 /\ y % 100 # 0) \/ y % 400 = 0

\* new Date(Date.UTC(year, month + 1, 0)).getUTCDate(), month 0-based
DaysInMonth(year, month) ==
    CASE month \in {0, 2, 4, 6, 7, 9, 11} -> 31
      [] month \in {3, 5, 8, 10} -> 30
      [] OTHER -> IF IsLeapYear(year) THEN 29 ELSE 28

Max(a, b) == IF a >= b THEN a ELSE b

\* Math.max(1, daysInMonth - currentDay + 1) for a UTC calendar date
DaysRemainingOn_afterToday(d) == Max(1, DaysInMonth(d.year, d.month) - d.day)
DaysRemainingOn(d) == Max(1, DaysInMonth(d.year, d.month) - d.day + 1)

getDaysRemainingInMonth(referenceDate) == DaysRemainingOn(UtcDate(referenceDate))

\* Math.round(value * 100) / 100 for value = num / den (den > 0), the result
\* in hundredths: Math.round rounds half up, towards +Infinity.
roundRequests(num, den) == (200 * num + den) \div (2 * den)

\* Intl.NumberFormat('en-US', {maximumFractionDigits: 2}).format of a number
\* given in hundredths: a minus sign, the integer part in groups of three
\* digits, and the fraction without trailing zeros.
Digits3(n) ==
    IF n < 10 THEN "00" \o ToString(n)
    ELSE IF n < 100 THEN "0" \o ToString(n)
    ELSE ToString(n)
Grouped(n) ==
    IF n < 1000 THEN ToString(n)
    ELSE ToString(n \div 1000) \o "," \o Digits3(n % 1000)
Fraction(h) ==
    IF h = 0 THEN ""
    ELSE IF h % 10 = 0 THEN "." \o ToString(h \div 10)
    ELSE IF h < 10 THEN ".0" \o ToString(h)
    ELSE "." \o ToString(h)
NumberFormat(hundredths) ==
    LET a == IF hundredths < 0 THEN -hundredths ELSE hundredths
    IN  (IF hundredths < 0 THEN "-" ELSE "")
        \o Grouped(a \div 100) \o Fraction(a % 100)

\* `${left}/${right}`
formatDisplay_clamped(todayAvailable, dailyTarget) ==
    NumberFormat(Max(0, todayAvailable)) \o "/" \o NumberFormat(dailyTarget)
formatDisplay(todayAvailable, dailyTarget) ==
    NumberFormat(todayAvailable) \o "/" \o NumberFormat(dailyTarget)

\* roundRequests(todayAvailable + dailyTarget * (daysRemaining - 1)), hundredths
calculateMonthRemaining_minus(todayAvailable, dailyTarget, daysRemaining) ==
    todayAvailable - dailyTarget * (daysRemaining - 1)
calculateMonthRemaining(todayAvailable, dailyTarget, daysRemaining) ==
    todayAvailable + dailyTarget * (daysRemaining - 1)

\* Date.prototype.toISOString and Date.parse: an ISO-8601 string is not the
\* number it encodes.
toISOString(ms) == [iso |-> ms]
DateParse(text) == text.iso

\* const dailyTarget = monthRemainingBeforeToday / daysRemaining, unrounded:
\* the quotient as numerator and denominator
unroundedDailyTarget_noFloor(monthlyQuota, spentThisMonth, spentToday, daysRemaining) ==
    [num |-> Max(0, monthlyQuota - (spentThisMonth - spentToday)),
     den |-> daysRemaining]
unroundedDailyTarget(monthlyQuota, spentThisMonth, spentToday, daysRemaining) ==
    LET spentBeforeToday == Max(0, spentThisMonth - spentToday)
        monthRemainingBeforeToday == Max(0, monthlyQuota - spentBeforeToday)
    IN  [num |-> monthRemainingBeforeToday, den |-> daysRemaining]

\* const todayAvailable = dailyTarget - spentToday, unrounded
unroundedTodayAvailable(dailyTarget, spentToday) ==
    [num |-> dailyTarget.num - spentToday * dailyTarget.den, den |-> dailyTarget.den]

\* The derivation of buildDataFromGitHub after its three upstream calls,
\* from the days that remain and the timestamp text.
deriveReport(monthlyQuota, daysRemaining, updatedAt, title, spentThisMonth, spentToday) ==
    LET dailyTarget ==
            unroundedDailyTarget(monthlyQuota, spentThisMonth, spentToday, daysRemaining)
        todayAvailable == unroundedTodayAvailable(dailyTarget, spentToday)
        roundedTodayAvailable == roundRequests(todayAvailable.num, todayAvailable.den)
        roundedDailyTarget == roundRequests(dailyTarget.num, dailyTarget.den)
    IN  [dailyTarget |-> roundedDailyTarget,
         daysRemaining |-> daysRemaining,
         display |-> formatDisplay(roundedTodayAvailable, roundedDailyTarget),
         monthRemaining |->
             calculateMonthRemaining(roundedTodayAvailable, roundedDailyTarget,
                                     daysRemaining),
         title |-> title,
         todayAvailable |-> roundedTodayAvailable,
         updatedAt |-> updatedAt]

buildDataFromGitHub(monthlyQuota, referenceDate, title, spentThisMonth, spentToday) ==
    deriveReport(monthlyQuota, getDaysRemainingInMonth(referenceDate),
                 toISOString(referenceDate), title, spentThisMonth, spentToday)

\* mapHttpStatusToError: the ApiError code of a non-2xx upstream status
mapHttpStatusToError(status) ==
    CASE status = 401 -> "GITHUB_TOKEN_INVALID"
      [] status = 403 -> "GITHUB_FORBIDDEN"
      [] status = 429 -> "GITHUB_RATE_LIMITED"
      [] OTHER -> "GITHUB_NETWORK_ERROR"

----------------------------------------------------------------------------
(* Usage cache: lib/cache                                                   *)

CACHE_TTL_MS == 5 * 60 * 1000
PAYLOAD_VERSION == 1

DataKeys ==
    {"dailyTarget", "daysRemaining", "display", "monthRemaining", "title",
     "todayAvailable", "updatedAt"}

\* JSON.stringify / JSON.parse: the text of an object holds its own
\* enumerable keys; a text that is not JSON makes JSON.parse throw.
JsonStringify_dropsKey(value) ==
    [valid |-> TRUE,
     object |-> [k \in (DOMAIN value) \ {"daysRemaining"} |-> value[k]]]
JsonStringify(value) == [valid |-> TRUE, object |-> value]
JsonIsValid(text) == text.valid
JsonParse(text) == text.object

\* dataSchema (valibot v.object): every key present and of its type, title
\* of 1..120 characters, updatedAt an ISO timestamp
SchemaAccepts(object) ==
    /\ DataKeys \subseteq DOMAIN object
    /\ object.title.len \in 1..120
    /\ "iso" \in DOMAIN object.updatedAt

\* parseDataPayload: v.object keeps the schema's keys and drops the others
parseDataPayload(object) == [k \in DataKeys |-> object[k]]

\* loadCachedData, lines 174-209: the row is deleted and null returned
RowIsCorrupt_skipsVersion(row) ==
    \/ ~(row.updated_at > 0)
    \/ ~JsonIsValid(row.payload_json)
    \/ ~SchemaAccepts(JsonParse(row.payload_json))
RowIsCorrupt(row) ==
    \/ row.payload_version # PAYLOAD_VERSION
    \/ ~(row.updated_at > 0)
    \/ ~JsonIsValid(row.payload_json)
    \/ ~SchemaAccepts(JsonParse(row.payload_json))

\* loadCachedData, line 212
IsFreshAge_strict(ageMs) == ageMs < CACHE_TTL_MS
IsFreshAge(ageMs) == ageMs <= CACHE_TTL_MS

\* loadCachedData, lines 211-218: the value returned for a sound row
CachedData(row, now) ==
    [isFresh |-> IsFreshAge(now - row.updated_at),
     payload |-> parseDataPayload(JsonParse(row.payload_json)),
     updatedAt |-> row.updated_at]

\* saveDataCache: the row of the INSERT ... ON CONFLICT DO UPDATE
CacheRow_oldVersion(payload, updatedAt) ==
    [payload_json |-> JsonStringify(payload),
     updated_at |-> updatedAt,
     payload_version |-> PAYLOAD_VERSION - 1]
CacheRow(payload, updatedAt) ==
    [payload_json |-> JsonStringify(payload),
     updated_at |-> updatedAt,
     payload_version |-> PAYLOAD_VERSION]

----------------------------------------------------------------------------
(* Resolution orchestrator: lib/data-loader.ts                              *)

\* What a caller passes to loadData (LoadDataInput). The title is the
\* output of normalizeObsTitle, never empty; now is optional.
TitleChoices == {[text |-> "Copilot requests available today", len |-> 32]}
QuotaChoices == {300}
NowChoices == {NULL, Some(0), Some(StartClock)}
CredentialChoices ==
    {[patCiphertext |-> Some("ciphertext"), patIv |-> Some("iv")],
     [patCiphertext |-> Some("tampered"), patIv |-> Some("iv")],
     [patCiphertext |-> NULL, patIv |-> NULL]}

\* What the upstream API answers: an HTTP status with a body, or no
\* response at all (fetch rejects).
UserResponses ==
    {[status |-> 200, body |-> "user"], [status |-> 200, body |-> "no_login"],
     [status |-> 401, body |-> "error"], [status |-> 0, body |-> "unreachable"]}
UsageResponses ==
    {[status |-> 200, spentThisMonth |-> 250, spentToday |-> 10],
     [status |-> 500, spentThisMonth |-> 0, spentToday |-> 0]}

\* Rows an earlier deployment or an earlier request left in usage_cache.
LegacyPayload ==
    [dailyTarget |-> 100, display |-> formatDisplay(50, 100),
     title |-> [text |-> "Copilot requests available today", len |-> 32],
     todayAvailable |-> 50, updatedAt |-> toISOString(StartClock - 1)]
EarlierPayload ==
    buildDataFromGitHub(300, StartClock - CACHE_TTL_MS + 1,
                        [text |-> "Copilot requests available today", len |-> 32],
                        200, 20)
InitialCacheRows ==
    {NULL,
     Some(CacheRow(EarlierPayload, StartClock - CACHE_TTL_MS + 1)),
     Some([CacheRow(EarlierPayload, StartClock - 1) EXCEPT !.payload_version = 2]),
     Some([CacheRow(EarlierPayload, StartClock - 1) EXCEPT !.updated_at = 0]),
     Some([CacheRow(EarlierPayload, StartClock - 1) EXCEPT
              !.payload_json = [valid |-> FALSE, object |-> NULL]]),
     Some(CacheRow(LegacyPayload, StartClock - 1))}

IdleLoad ==
    [pc |-> "idle", input |-> NULL, cached |-> NULL, referenceDate |-> NULL,
     livePayload |-> NULL, error |-> NULL, result |-> NULL,
     decrypts |-> 0, fetches |-> 0, writes |-> 0, deletes |-> 0]

Returned(payload, source) ==
    Some([kind |-> "value", payload |-> Some(payload), source |-> source, error |-> ""])
ReturnedNull ==
    Some([kind |-> "null", payload |-> NULL, source |-> "", error |-> ""])
Thrown(error) ==
    Some([kind |-> "throw", payload |-> NULL, source |-> "", error |-> error])

hasValidPatCredentials(input) ==
    /\ ~IsNull(input.patCiphertext) /\ Val(input.patCiphertext) # ""
    /\ ~IsNull(input.patIv) /\ Val(input.patIv) # ""

resolveCacheUpdatedAtFromPayload_writeTime(payloadUpdatedAt, fallbackTimestamp) ==
    clock
resolveCacheUpdatedAtFromPayload(payloadUpdatedAt, fallbackTimestamp) ==
    IF "iso" \in DOMAIN payloadUpdatedAt
    THEN DateParse(payloadUpdatedAt)
    ELSE fallbackTimestamp

\* loadData, lines 62-71: no usable credential
NoCredentialResult_null(cached) == ReturnedNull
NoCredentialResult(cached) ==
    IF ~IsNull(cached)
    THEN Returned(Val(cached).payload, "cache_stale_fallback")
    ELSE ReturnedNull

\* loadData, lines 92-101: the catch block
CatchResult_rethrow(cached, error) == Thrown(error)
CatchResult(cached, error) ==
    IF ~IsNull(cached)
    THEN Returned(Val(cached).payload, "cache_stale_fallback")
    ELSE Thrown(error)

\* loadData, lines 51-73: what follows the cache read, up to the first await
AfterCacheRead_ignoreFresh(l, cached, now) ==
    IF ~hasValidPatCredentials(Val(l.input))
    THEN [l EXCEPT !.pc = "done", !.cached = cached,
                   !.result = NoCredentialResult(cached)]
    ELSE [l EXCEPT !.pc = "decrypt", !.cached = cached,
                   !.referenceDate =
                       IF IsNull(Val(l.input).now) THEN Some(now) ELSE Val(l.input).now]
AfterCacheRead(l, cached, now) ==
    IF ~IsNull(cached) /\ Val(cached).isFresh
    THEN [l EXCEPT !.pc = "done", !.cached = cached,
                   !.result = Returned(Val(cached).payload, "cache_hit")]
    ELSE IF ~hasValidPatCredentials(Val(l.input))
    THEN [l EXCEPT !.pc = "done", !.cached = cached,
                   !.result = NoCredentialResult(cached)]
    ELSE [l EXCEPT !.pc = "decrypt", !.cached = cached,
                   !.referenceDate =
                       IF IsNull(Val(l.input).now) THEN Some(now) ELSE Val(l.input).now]

\* the catch block entered with `error`
Caught(l, error) ==
    [l EXCEPT !.pc = "done", !.error = Some(error),
              !.result = CatchResult(l.cached, error)]

\* A request calls loadData.
LoadDataCall(q) ==
    /\ ld[q].pc = "idle"
    /\ loads < MaxLoads
    /\ \E now \in NowChoices, cred \in CredentialChoices,
          quota \in QuotaChoices, title \in TitleChoices :
          ld' = [ld EXCEPT ![q] =
                   [IdleLoad EXCEPT !.pc = "select",
                       !.input = Some([now |-> now, monthlyQuota |-> quota,
                                       title |-> title,
                                       patCiphertext |-> cred.patCiphertext,
                                       patIv |-> cred.patIv])]]
    /\ loads' = loads + 1
    /\ UNCHANGED <<clock, ticks, usage_cache>>
    /\ UNCHANGED authVars
    /\ UNCHANGED restVars

\* loadCachedData: the SELECT and, for a sound row, everything after it.
CacheSelect(q) ==
    /\ ld[q].pc = "select"
    /\ IF IsNull(usage_cache)
       THEN ld' = [ld EXCEPT ![q] = AfterCacheRead(ld[q], NULL, clock)]
       ELSE IF RowIsCorrupt(Val(usage_cache))
       THEN ld' = [ld EXCEPT ![q].pc = "heal"]
       ELSE ld' = [ld EXCEPT ![q] =
                     AfterCacheRead(ld[q], Some(CachedData(Val(usage_cache), clock)),
                                    clock)]
    /\ UNCHANGED <<clock, ticks, usage_cache, loads>>
    /\ UNCHANGED authVars
    /\ UNCHANGED restVars

\* loadCachedData on a corrupt row: await deleteCache, then return null.
CacheHeal(q) ==
    /\ ld[q].pc = "heal"
    /\ usage_cache' = deleteCache(usage_cache)
    /\ ld' = [ld EXCEPT ![q] =
                AfterCacheRead([ld[q] EXCEPT !.deletes = @ + 1], NULL, clock)]
    /\ UNCHANGED <<clock, ticks, loads>>
    /\ UNCHANGED authVars
    /\ UNCHANGED restVars

\* await decryptPat: AES-GCM rejects a ciphertext it cannot authenticate.
DecryptPat(q) ==
    /\ ld[q].pc = "decrypt"
    /\ LET l == [ld[q] EXCEPT !.decrypts = @ + 1]
       IN  IF Val(Val(l.input).patCiphertext) = "ciphertext"
           THEN ld' = [ld EXCEPT ![q] = [l EXCEPT !.pc = "user"]]
           ELSE ld' = [ld EXCEPT ![q] = Caught(l, "VALIDATION_ERROR")]
    /\ UNCHANGED <<clock, ticks, usage_cache, loads>>
    /\ UNCHANGED authVars
    /\ UNCHANGED restVars

\* buildDataFromGitHub: await fetchCurrentUser
FetchCurrentUser(q) ==
    /\ ld[q].pc = "user"
    /\ \E r \in UserResponses :
          LET l == [ld[q] EXCEPT !.fetches = @ + 1]
          IN  ld' = [ld EXCEPT ![q] =
                  IF r.body = "unreachable" THEN Caught(l, "TypeError")
                  ELSE IF r.status # 200 THEN Caught(l, mapHttpStatusToError(r.status))
                  ELSE IF r.body # "user" THEN Caught(l, "GITHUB_NETWORK_ERROR")
                  ELSE [l EXCEPT !.pc = "usage"]]
    /\ UNCHANGED <<clock, ticks, usage_cache, loads>>
    /\ UNCHANGED authVars
    /\ UNCHANGED restVars

\* buildDataFromGitHub: await Promise.all of the month and the day usage,
\* then the derivation of the payload.
FetchPremiumUsage(q) ==
    /\ ld[q].pc = "usage"
    /\ \E r \in UsageResponses :
          LET l == [ld[q] EXCEPT !.fetches = @ + 2]
              in == Val(l.input)
          IN  ld' = [ld EXCEPT ![q] =
                  IF r.status # 200 THEN Caught(l, mapHttpStatusToError(r.status))
                  ELSE [l EXCEPT !.pc = "save",
                           !.livePayload =
                               Some(buildDataFromGitHub(in.monthlyQuota,
                                        Val(l.referenceDate), in.title,
                                        r.spentThisMonth, r.spentToday))]]
    /\ UNCHANGED <<clock, ticks, usage_cache, loads>>
    /\ UNCHANGED authVars
    /\ UNCHANGED restVars

\* await saveDataCache, then return the live payload; a statement D1
\* rejects lands in the catch block like any other failure.
SaveCache_liveOnFailedWrite(q) ==
    /\ ld[q].pc = "save"
    /\ LET l == ld[q]
           payload == Val(l.livePayload)
           cacheUpdatedAt ==
               resolveCacheUpdatedAtFromPayload(payload.updatedAt, Val(l.referenceDate))
       IN  \/ /\ ForeignKeyHolds(account.exists)
              /\ usage_cache' = Some(CacheRow(payload, cacheUpdatedAt))
              /\ ld' = [ld EXCEPT ![q] =
                          [l EXCEPT !.pc = "done", !.writes = @ + 1,
                                    !.result = Returned(payload, "github_live")]]
           \/ /\ usage_cache' = usage_cache
              /\ ld' = [ld EXCEPT ![q] =
                          [l EXCEPT !.pc = "done", !.error = Some("D1_ERROR"),
                                    !.result = Returned(payload, "github_live")]]
    /\ UNCHANGED <<clock, ticks, loads>>
    /\ UNCHANGED authVars
    /\ UNCHANGED restVars
SaveCache(q) ==
    /\ ld[q].pc = "save"
    /\ LET l == ld[q]
           payload == Val(l.livePayload)
           cacheUpdatedAt ==
               resolveCacheUpdatedAtFromPayload(payload.updatedAt, Val(l.referenceDate))
       IN  \/ /\ ForeignKeyHolds(account.exists)
              /\ usage_cache' = Some(CacheRow(payload, cacheUpdatedAt))
              /\ ld' = [ld EXCEPT ![q] =
                          [l EXCEPT !.pc = "done", !.writes = @ + 1,
                                    !.result = Returned(payload, "github_live")]]
           \/ /\ usage_cache' = usage_cache
              /\ ld' = [ld EXCEPT ![q] = Caught(l, "D1_ERROR")]
    /\ UNCHANGED <<clock, ticks, loads>>
    /\ UNCHANGED authVars
    /\ UNCHANGED restVars

\* The request is answered; its locals are gone.
LoadDataReturn(q) ==
    /\ ld[q].pc = "done"
    /\ ld' = [ld EXCEPT ![q] = IdleLoad]
    /\ UNCHANGED <<clock, ticks, usage_cache, loads>>
    /\ UNCHANGED authVars
    /\ UNCHANGED restVars

\* Time passes.
Tick(steps, max) ==
    /\ ticks < max
    /\ \E d \in steps : clock' = clock + d
    /\ ticks' = ticks + 1
    /\ UNCHANGED <<usage_cache, ld, loads>>
    /\ UNCHANGED authVars
    /\ UNCHANGED restVars

----------------------------------------------------------------------------
(* Secret codec: lib/crypto                                                 *)

\* encryptSecret / decryptSecret (AES-GCM): a ciphertext is not its plaintext
encryptSecret(secret) == [ciphertext |-> [sealed |-> secret], iv |-> "iv"]
decryptSecret(ciphertext, iv) == ciphertext.sealed

----------------------------------------------------------------------------
(* Token lifecycle manager: lib/github-auth.ts                              *)

ACCESS_TOKEN_EXPIRY_SAFETY_MS == 60000

Callers == {1, 2}        \* overlapping getValidGitHubAccessTokenForUser calls

\* expires_in and refresh_token_expires_in of a token response, in seconds
ExpiresInChoices == {120}
RefreshExpiresIn == 1200

AccessToken(n) == [prefix |-> "ghu", n |-> n]
RefreshToken(n) == [prefix |-> "ghr", n |-> n]

\* The github_* columns of a users row nobody has connected.
DisconnectedRow ==
    [github_user_id |-> NULL, github_login |-> NULL,
     github_access_token_ciphertext |-> NULL, github_access_token_iv |-> NULL,
     github_access_token_expires_at |-> NULL,
     github_refresh_token_ciphertext |-> NULL, github_refresh_token_iv |-> NULL,
     github_refresh_token_expires_at |-> NULL,
     github_auth_invalid_at |-> NULL]

getAbsoluteExpiryTimestamp(now, expiresInSeconds) == now + expiresInSeconds * 1000

\* saveGitHubTokenBundle: the UPDATE users SET ... of one statement;
\* input.githubLogin / githubUserId are NULL when the caller omits them
saveGitHubTokenBundle_keepsInvalidAt(row, input) ==
    LET encryptedAccessToken == encryptSecret(input.accessToken)
        encryptedRefreshToken == encryptSecret(input.refreshToken)
    IN  [row EXCEPT
            !.github_access_token_ciphertext = Some(encryptedAccessToken.ciphertext),
            !.github_access_token_iv = Some(encryptedAccessToken.iv),
            !.github_access_token_expires_at = Some(input.accessTokenExpiresAt),
            !.github_refresh_token_ciphertext = Some(encryptedRefreshToken.ciphertext),
            !.github_refresh_token_iv = Some(encryptedRefreshToken.iv),
            !.github_refresh_token_expires_at = Some(input.refreshTokenExpiresAt),
            !.github_login = IF IsNull(input.githubLogin) THEN @ ELSE input.githubLogin,
            !.github_user_id = IF IsNull(input.githubUserId) THEN @ ELSE input.githubUserId]
saveGitHubTokenBundle(row, input) ==
    LET encryptedAccessToken == encryptSecret(input.accessToken)
        encryptedRefreshToken == encryptSecret(input.refreshToken)
    IN  [row EXCEPT
            !.github_access_token_ciphertext = Some(encryptedAccessToken.ciphertext),
            !.github_access_token_iv = Some(encryptedAccessToken.iv),
            !.github_access_token_expires_at = Some(input.accessTokenExpiresAt),
            !.github_refresh_token_ciphertext = Some(encryptedRefreshToken.ciphertext),
            !.github_refresh_token_iv = Some(encryptedRefreshToken.iv),
            !.github_refresh_token_expires_at = Some(input.refreshTokenExpiresAt),
            !.github_auth_invalid_at = NULL,
            !.github_login = IF IsNull(input.githubLogin) THEN @ ELSE input.githubLogin,
            !.github_user_id = IF IsNull(input.githubUserId) THEN @ ELSE input.githubUserId]

\* markGitHubAuthInvalid: UPDATE users SET github_auth_invalid_at = ?
markGitHubAuthInvalid_dropsAccessToken(row, now) ==
    [row EXCEPT !.github_auth_invalid_at = Some(now),
                !.github_access_token_ciphertext = NULL]
markGitHubAuthInvalid(row, now) == [row EXCEPT !.github_auth_invalid_at = Some(now)]

\* clearGitHubConnection: UPDATE users SET every github_* column = NULL
clearGitHubConnection(row) == [f \in DOMAIN row |-> NULL]

isConnectedRow(row) ==
    /\ ~IsNull(row.github_refresh_token_ciphertext)
    /\ ~IsNull(row.github_refresh_token_iv)

decryptOptionalSecret(ciphertext, iv) ==
    IF IsNull(ciphertext) \/ IsNull(iv)
    THEN NULL
    ELSE Some(decryptSecret(Val(ciphertext), Val(iv)))

\* loadGitHubTokenBundle: NULL for a row that is not connected
loadGitHubTokenBundle(row) ==
    IF ~isConnectedRow(row)
    THEN NULL
    ELSE Some([accessToken |->
                   decryptOptionalSecret(row.github_access_token_ciphertext,
                                         row.github_access_token_iv),
               accessTokenExpiresAt |-> row.github_access_token_expires_at,
               authInvalidAt |-> row.github_auth_invalid_at,
               githubLogin |-> row.github_login,
               githubUserId |-> row.github_user_id,
               refreshToken |->
                   decryptOptionalSecret(row.github_refresh_token_ciphertext,
                                         row.github_refresh_token_iv),
               refreshTokenExpiresAt |-> row.github_refresh_token_expires_at])

hasFreshAccessToken_atMargin(bundle, now) ==
    /\ ~IsNull(bundle.accessToken)
    /\ ~IsNull(bundle.accessTokenExpiresAt)
    /\ Val(bundle.accessTokenExpiresAt) >= now + ACCESS_TOKEN_EXPIRY_SAFETY_MS
hasFreshAccessToken(bundle, now) ==
    /\ ~IsNull(bundle.accessToken)
    /\ ~IsNull(bundle.accessTokenExpiresAt)
    /\ Val(bundle.accessTokenExpiresAt) > now + ACCESS_TOKEN_EXPIRY_SAFETY_MS

isGitHubAuthMarkedInvalid(bundle) ==
    ~IsNull(bundle.authInvalidAt) /\ Val(bundle.authInvalidAt) > 0

hasRefreshToken(bundle) == ~IsNull(bundle.refreshToken)

\* isRefreshTokenEndpointInvalidError: an ApiError GITHUB_AUTH_FAILED whose
\* message holds one of the known markers. A message is the set of the
\* words in it.
KnownMarkers == {"bad_refresh_token", "invalid_grant", "expired", "revoked"}
isRefreshTokenEndpointInvalidError(error) ==
    /\ error.code = "GITHUB_AUTH_FAILED"
    /\ error.message \cap KnownMarkers # {}

createGitHubTokenInvalidError ==
    [code |-> "GITHUB_TOKEN_INVALID", message |-> {"reconnect"}]

\* What the token endpoint answers to a request it does not grant.
ServerUnavailable == [code |-> "GITHUB_AUTH_FAILED", message |-> {"503", "unavailable"}]
BadRefreshToken ==
    [code |-> "GITHUB_AUTH_FAILED", message |-> {"200", "bad_refresh_token"}]
FetchRejected == [code |-> "TypeError", message |-> {"fetch", "failed"}]
\* a 504 of a proxy in front of the endpoint, its body not JSON:
\* "GitHub token endpoint error (504): upstream request expired"
GatewayExpired ==
    [code |-> "GITHUB_AUTH_FAILED", message |-> {"504", "upstream", "request", "expired"}]

\* The token pair GitHub issues as number n (parseGitHubAppTokenPayload).
TokenPayload(n, expiresIn) ==
    [accessToken |-> AccessToken(n),
     accessTokenExpiresInSeconds |-> expiresIn,
     refreshToken |-> RefreshToken(n),
     refreshTokenExpiresInSeconds |-> RefreshExpiresIn]

IdleCall ==
    [pc |-> "idle", now |-> 0, bundle |-> NULL, refreshed |-> NULL,
     error |-> NULL, rereadNow |-> 0, rereadBundle |-> NULL, result |-> NULL,
     requests |-> 0, reads |-> 0, writes |-> 0]

TokenReturned(token) == Some([kind |-> "token", token |-> token, error |-> NULL])
TokenNull == Some([kind |-> "null", token |-> NULL, error |-> NULL])
TokenThrown(error) == Some([kind |-> "throw", token |-> NULL, error |-> Some(error)])

\* getValidGitHubAccessTokenForUserInternal, lines 538-558: from the loaded
\* bundle to the first return, throw or the refresh request
AfterLoadBundle(g, bundle) ==
    IF IsNull(bundle)
    THEN [g EXCEPT !.pc = "done", !.bundle = bundle, !.result = TokenNull]
    ELSE IF hasFreshAccessToken(Val(bundle), g.now)
    THEN [g EXCEPT !.pc = "done", !.bundle = bundle,
                   !.result = TokenReturned(Val(bundle).accessToken)]
    ELSE IF isGitHubAuthMarkedInvalid(Val(bundle))
    THEN [g EXCEPT !.pc = "done", !.bundle = bundle,
                   !.result = TokenThrown(createGitHubTokenInvalidError)]
    ELSE IF ~hasRefreshToken(Val(bundle))
    THEN [g EXCEPT !.pc = "done", !.bundle = bundle, !.result = TokenNull]
    ELSE [g EXCEPT !.pc = "refresh", !.bundle = bundle]

AfterReread_retriesRefresh(g, rereadBundle, rereadNow) ==
    IF ~IsNull(rereadBundle) /\ hasFreshAccessToken(Val(rereadBundle), rereadNow)
    THEN [g EXCEPT !.pc = "done", !.rereadBundle = rereadBundle,
                   !.result = TokenReturned(Val(rereadBundle).accessToken)]
    ELSE IF isRefreshTokenEndpointInvalidError(Val(g.error))
    THEN [g EXCEPT !.pc = "mark", !.rereadBundle = rereadBundle]
    ELSE IF g.requests < 2
    THEN [g EXCEPT !.pc = "refresh", !.rereadBundle = rereadBundle]
    ELSE [g EXCEPT !.pc = "done", !.rereadBundle = rereadBundle,
                   !.result = TokenThrown(Val(g.error))]

\* lines 581-598: the catch block after the re-read
AfterReread(g, rereadBundle, rereadNow) ==
    IF ~IsNull(rereadBundle) /\ hasFreshAccessToken(Val(rereadBundle), rereadNow)
    THEN [g EXCEPT !.pc = "done", !.rereadBundle = rereadBundle,
                   !.result = TokenReturned(Val(rereadBundle).accessToken)]
    ELSE IF isRefreshTokenEndpointInvalidError(Val(g.error))
    THEN [g EXCEPT !.pc = "mark", !.rereadBundle = rereadBundle]
    ELSE [g EXCEPT !.pc = "done", !.rereadBundle = rereadBundle,
                   !.result = TokenThrown(Val(g.error))]

\* A request calls getValidGitHubAccessTokenForUser: const now = Date.now()
TokenCall(p) ==
    /\ gh[p].pc = "idle"
    /\ calls < MaxCalls
    /\ gh' = [gh EXCEPT ![p] = [IdleCall EXCEPT !.pc = "load", !.now = clock]]
    /\ calls' = calls + 1
    /\ UNCHANGED <<clock, ticks, users, github, cb>>
    /\ UNCHANGED cacheVars
    /\ UNCHANGED restVars

\* await loadGitHubTokenBundle
TokenLoad(p) ==
    /\ gh[p].pc = "load"
    /\ gh' = [gh EXCEPT ![p] =
                AfterLoadBundle([gh[p] EXCEPT !.reads = @ + 1],
                                loadGitHubTokenBundle(users))]
    /\ UNCHANGED <<clock, ticks, users, github, cb, calls>>
    /\ UNCHANGED cacheVars
    /\ UNCHANGED restVars

\* await refreshGitHubUserAccessToken: GitHub grants a refresh token it
\* accepts, replacing it by the new pair's, and rejects any other; the
\* request may also fail on the way. A failure enters the catch block,
\* which takes rereadNow = Date.now() before it awaits the re-read.
TokenRefresh(p) ==
    /\ gh[p].pc = "refresh"
    /\ LET g == [gh[p] EXCEPT !.requests = @ + 1]
           presented == Val(Val(g.bundle).refreshToken).n
       IN  \/ /\ presented \in github.accepted
              /\ github.issued < MaxIssued
              /\ \E e \in ExpiresInChoices :
                    gh' = [gh EXCEPT ![p] =
                             [g EXCEPT !.pc = "save",
                                 !.refreshed = Some(TokenPayload(github.issued + 1, e))]]
              /\ github' = [issued |-> github.issued + 1,
                            accepted |-> (github.accepted \ {presented})
                                            \cup {github.issued + 1}]
           \/ /\ presented \notin github.accepted
              /\ gh' = [gh EXCEPT ![p] =
                          [g EXCEPT !.pc = "reread", !.rereadNow = clock,
                                    !.error = Some(BadRefreshToken)]]
              /\ github' = github
           \/ /\ \E e \in {ServerUnavailable, FetchRejected, GatewayExpired} :
                    gh' = [gh EXCEPT ![p] =
                             [g EXCEPT !.pc = "reread", !.rereadNow = clock,
                                       !.error = Some(e)]]
              /\ github' = github
    /\ UNCHANGED <<clock, ticks, users, cb, calls>>
    /\ UNCHANGED cacheVars
    /\ UNCHANGED restVars

\* await saveGitHubTokenBundle, then return refreshed.accessToken
TokenSave(p) ==
    /\ gh[p].pc = "save"
    /\ LET g == gh[p]
           refreshed == Val(g.refreshed)
       IN  /\ users' = UpdateWhereId(account.exists, users,
                saveGitHubTokenBundle(users,
                  [accessToken |-> refreshed.accessToken,
                   accessTokenExpiresAt |->
                       getAbsoluteExpiryTimestamp(g.now, refreshed.accessTokenExpiresInSeconds),
                   githubLogin |-> NULL,
                   githubUserId |-> NULL,
                   refreshToken |-> refreshed.refreshToken,
                   refreshTokenExpiresAt |->
                       getAbsoluteExpiryTimestamp(g.now, refreshed.refreshTokenExpiresInSeconds)]))
           /\ gh' = [gh EXCEPT ![p] =
                       [g EXCEPT !.pc = "done", !.writes = @ + 1,
                                 !.result = TokenReturned(Some(refreshed.accessToken))]]
    /\ UNCHANGED <<clock, ticks, github, cb, calls>>
    /\ UNCHANGED cacheVars
    /\ UNCHANGED restVars

TokenReread_marksInvalid(p) ==
    /\ gh[p].pc = "reread"
    /\ gh' = [gh EXCEPT ![p] =
                AfterReread([gh[p] EXCEPT !.reads = @ + 1],
                            loadGitHubTokenBundle(users), gh[p].rereadNow)]
    /\ users' = markGitHubAuthInvalid(users, gh[p].now)
    /\ UNCHANGED <<clock, ticks, github, cb, calls>>
    /\ UNCHANGED cacheVars
    /\ UNCHANGED restVars

\* catch: await loadGitHubTokenBundle, then the checks on what it read
TokenReread(p) ==
    /\ gh[p].pc = "reread"
    /\ gh' = [gh EXCEPT ![p] =
                AfterReread([gh[p] EXCEPT !.reads = @ + 1],
                            loadGitHubTokenBundle(users), gh[p].rereadNow)]
    /\ UNCHANGED <<clock, ticks, users, github, cb, calls>>
    /\ UNCHANGED cacheVars
    /\ UNCHANGED restVars

\* await markGitHubAuthInvalid(db, userId, now), then throw
TokenMarkInvalid(p) ==
    /\ gh[p].pc = "mark"
    /\ users' = UpdateWhereId(account.exists, users,
                              markGitHubAuthInvalid(users, gh[p].now))
    /\ gh' = [gh EXCEPT ![p] =
                [gh[p] EXCEPT !.pc = "done", !.writes = @ + 1,
                              !.result = TokenThrown(createGitHubTokenInvalidError)]]
    /\ UNCHANGED <<clock, ticks, github, cb, calls>>
    /\ UNCHANGED cacheVars
    /\ UNCHANGED restVars

\* The caller has its answer; the invocation's locals are gone.
TokenReturn(p) ==
    /\ gh[p].pc = "done"
    /\ gh' = [gh EXCEPT ![p] = IdleCall]
    /\ UNCHANGED <<clock, ticks, users, github, cb, calls>>
    /\ UNCHANGED cacheVars
    /\ UNCHANGED restVars

----------------------------------------------------------------------------
(* GET /api/auth/github/callback: worker.ts, lines 549-570                  *)

IdleCallback == [pc |-> "idle", now |-> 0, tokenBundle |-> NULL, served |-> 0]

\* now = Date.now(); exchangeGitHubCodeForUserTokenBundle and
\* fetchGitHubUserProfile: GitHub issues a new pair for the user's consent.
CallbackExchange ==
    /\ cb.pc = "idle"
    /\ cb.served < MaxCallbacks
    /\ github.issued < MaxIssued
    /\ \E e \in ExpiresInChoices :
          cb' = [cb EXCEPT !.pc = "save", !.now = clock,
                           !.tokenBundle = Some(TokenPayload(github.issued + 1, e))]
    /\ github' = [issued |-> github.issued + 1,
                  accepted |-> github.accepted \cup {github.issued + 1}]
    /\ UNCHANGED <<clock, ticks, users, gh, calls>>
    /\ UNCHANGED cacheVars
    /\ UNCHANGED restVars

\* await saveGitHubTokenBundle with the profile and setConnectedAt
CallbackSave ==
    /\ cb.pc = "save"
    /\ LET tokenBundle == Val(cb.tokenBundle)
       IN  users' = UpdateWhereId(account.exists, users,
             saveGitHubTokenBundle(users,
               [accessToken |-> tokenBundle.accessToken,
                accessTokenExpiresAt |->
                    cb.now + tokenBundle.accessTokenExpiresInSeconds * 1000,
                githubLogin |-> Some("octocat"),
                githubUserId |-> Some("583231"),
                refreshToken |-> tokenBundle.refreshToken,
                refreshTokenExpiresAt |->
                    cb.now + tokenBundle.refreshTokenExpiresInSeconds * 1000]))
    /\ cb' = [cb EXCEPT !.pc = "purge"]
    /\ UNCHANGED <<clock, ticks, github, gh, calls>>
    /\ UNCHANGED cacheVars
    /\ UNCHANGED restVars

\* await deleteCache, then the redirect
CallbackDeleteCache ==
    /\ cb.pc = "purge"
    /\ usage_cache' = deleteCache(usage_cache)
    /\ cb' = [IdleCallback EXCEPT !.served = cb.served + 1]
    /\ UNCHANGED <<clock, ticks, ld, loads, users, github, gh, calls>>
    /\ UNCHANGED restVars

\* The user revokes the app's authorization on GitHub (or the refresh
\* token runs out): no refresh token of the user is accepted any more.
GitHubRevokes ==
    /\ github.accepted # {}
    /\ github' = [github EXCEPT !.accepted = {}]
    /\ UNCHANGED <<clock, ticks, users, gh, cb, calls>>
    /\ UNCHANGED cacheVars
    /\ UNCHANGED restVars

----------------------------------------------------------------------------
(* Account management: worker.ts and lib/auth                               *)

\* The user's row as the Twitch login created it, with one session.
InitialAccount ==
    [exists |-> TRUE, monthly_quota |-> NULL, obs_title |-> NULL, sessions |-> 1]
\* No row: DELETE FROM users took it, and ON DELETE CASCADE its sessions.
DeletedAccount ==
    [exists |-> FALSE, monthly_quota |-> NULL, obs_title |-> NULL, sessions |-> 0]

\* requireAuthUser / getSessionUser: a session row joined with its user
requireAuthUser(acc) == acc.exists /\ acc.sessions > 0

\* Bodies of PUT /api/settings that pass parseUpdateSettingsInput; a title
\* is its text, its length and how much of it is surrounding white space.
NoTitle == [text |-> "", len |-> 0, space |-> 0]
SettingsInputs ==
    {[hasMonthlyQuota |-> TRUE, monthlyQuota |-> Some(500),
      hasObsTitle |-> FALSE, obsTitle |-> NoTitle],
     [hasMonthlyQuota |-> FALSE, monthlyQuota |-> NULL,
      hasObsTitle |-> TRUE,
      obsTitle |-> [text |-> " Requests left ", len |-> 15, space |-> 2]]}

\* String.prototype.trim
Trim(title) ==
    IF title.len = title.space
    THEN NoTitle
    ELSE [title EXCEPT !.len = title.len - title.space, !.space = 0]

\* PUT /api/settings, lines 763-794: the columns the UPDATE sets
SettingsRow(row, input) ==
    LET nextExplicitMonthlyQuota ==
            IF input.hasMonthlyQuota THEN input.monthlyQuota ELSE NULL
        shouldUpdateMonthlyQuota == ~IsNull(nextExplicitMonthlyQuota)
        normalizedObsTitle == Trim(input.obsTitle)
        nextStoredObsTitle ==
            IF input.hasObsTitle
            THEN (IF normalizedObsTitle.len > 0 THEN Some(normalizedObsTitle) ELSE NULL)
            ELSE row.obs_title
    IN  [row EXCEPT
            !.monthly_quota = IF shouldUpdateMonthlyQuota THEN nextExplicitMonthlyQuota ELSE @,
            !.obs_title = IF input.hasObsTitle THEN nextStoredObsTitle ELSE @]

IdleWeb == [pc |-> "idle", input |-> NULL, completed |-> "", served |-> 0]

\* PUT /api/settings: requireAuthUser and the parsed body
SettingsBegin ==
    /\ web.pc = "idle"
    /\ web.served < MaxChanges
    /\ requireAuthUser(account)
    /\ \E input \in SettingsInputs :
          web' = [web EXCEPT !.pc = "select", !.input = Some(input)]
    /\ UNCHANGED <<clock, ticks, account, del, login>>
    /\ UNCHANGED sideVars
    /\ UNCHANGED cacheVars
    /\ UNCHANGED authVars

\* SELECT monthly_quota, obs_title FROM users: 404 when the row is gone
SettingsSelect ==
    /\ web.pc = "select"
    /\ web' = IF account.exists
              THEN [web EXCEPT !.pc = "update"]
              ELSE [IdleWeb EXCEPT !.completed = "NOT_FOUND",
                                   !.served = web.served + 1]
    /\ UNCHANGED <<clock, ticks, account, del, login>>
    /\ UNCHANGED sideVars
    /\ UNCHANGED cacheVars
    /\ UNCHANGED authVars

\* await UPDATE users SET ... WHERE id = ?
SettingsUpdate ==
    /\ web.pc = "update"
    /\ account' = UpdateWhereId(account.exists, account,
                                SettingsRow(account, Val(web.input)))
    /\ web' = [web EXCEPT !.pc = "purge"]
    /\ UNCHANGED <<clock, ticks, del, login>>
    /\ UNCHANGED sideVars
    /\ UNCHANGED cacheVars
    /\ UNCHANGED authVars

\* await deleteCache, then { ok: true }
SettingsDeleteCache ==
    /\ web.pc = "purge"
    /\ usage_cache' = deleteCache(usage_cache)
    /\ web' = [IdleWeb EXCEPT !.completed = "settings", !.served = web.served + 1]
    /\ UNCHANGED <<clock, ticks, ld, loads, account, del, login>>
    /\ UNCHANGED sideVars
    /\ UNCHANGED authVars

\* POST /api/auth/github/disconnect: requireAuthUser
DisconnectBegin ==
    /\ web.pc = "idle"
    /\ web.served < MaxChanges
    /\ requireAuthUser(account)
    /\ web' = [web EXCEPT !.pc = "clear"]
    /\ UNCHANGED <<clock, ticks, account, del, login>>
    /\ UNCHANGED sideVars
    /\ UNCHANGED cacheVars
    /\ UNCHANGED authVars

\* await clearGitHubConnection
DisconnectClear ==
    /\ web.pc = "clear"
    /\ users' = UpdateWhereId(account.exists, users, clearGitHubConnection(users))
    /\ web' = [web EXCEPT !.pc = "unlink"]
    /\ UNCHANGED <<clock, ticks, github, gh, cb, calls, account, del, login>>
    /\ UNCHANGED sideVars
    /\ UNCHANGED cacheVars

\* await deleteCache, then { ok: true }
DisconnectDeleteCache ==
    /\ web.pc = "unlink"
    /\ usage_cache' = deleteCache(usage_cache)
    /\ web' = [IdleWeb EXCEPT !.completed = "disconnect", !.served = web.served + 1]
    /\ UNCHANGED <<clock, ticks, ld, loads, account, del, login>>
    /\ UNCHANGED sideVars
    /\ UNCHANGED authVars

\* DELETE /api/account: requireAuthUser
DeleteBegin ==
    /\ del = "idle"
    /\ requireAuthUser(account)
    /\ del' = "delete"
    /\ UNCHANGED <<clock, ticks, account, web, login>>
    /\ UNCHANGED sideVars
    /\ UNCHANGED cacheVars
    /\ UNCHANGED authVars

\* await DELETE FROM users WHERE id = ?: the row goes, and with it, by
\* ON DELETE CASCADE, its sessions and its usage_cache row
AccountDelete ==
    /\ del = "delete"
    /\ account' = DeletedAccount
    /\ users' = DisconnectedRow
    /\ usage_cache' = NULL
    /\ del' = "done"
    /\ UNCHANGED <<clock, ticks, ld, loads, github, gh, cb, calls, web, login>>
    /\ UNCHANGED sideVars

\* GET /api/auth/twitch/callback of this user: upsertUser finds the row
LoginUpsert ==
    /\ login.pc = "idle"
    /\ login.served < MaxLogins
    /\ account.exists
    /\ login' = [login EXCEPT !.pc = "session"]
    /\ UNCHANGED <<clock, ticks, account, web, del>>
    /\ UNCHANGED sideVars
    /\ UNCHANGED cacheVars
    /\ UNCHANGED authVars

\* createSession: INSERT INTO sessions (user_id, ...)
LoginCreateSession ==
    /\ login.pc = "session"
    /\ account' = IF ForeignKeyHolds(account.exists)
                  THEN [account EXCEPT !.sessions = @ + 1]
                  ELSE account
    /\ login' = [pc |-> "idle", served |-> login.served + 1,
                 failed |-> ~ForeignKeyHolds(account.exists)]
    /\ UNCHANGED <<clock, ticks, web, del>>
    /\ UNCHANGED sideVars
    /\ UNCHANGED cacheVars
    /\ UNCHANGED authVars

----------------------------------------------------------------------------
(* The report builder as a whole: lib/github                                *)

\* Arguments of buildDataFromGitHub: the quota and the UTC date of
\* referenceDate (month 0-based, as getUTCMonth gives it).
ReportQuotas == {0, 300, 1500}
ReportDates ==
    {[year |-> 2024, month |-> 1, day |-> 25],
     [year |-> 2023, month |-> 1, day |-> 28],
     [year |-> 2024, month |-> 3, day |-> 18],
     [year |-> 2024, month |-> 11, day |-> 1]}

\* What api.github.com does with one request: fetch rejects (status 0), or
\* a response with a status and a body; a body is a JSON object (with or
\* without the field the caller reads), JSON that is no object, or no JSON.
Rejected == [status |-> 0, body |-> "none", value |-> 0]
UserReplies ==
    {[status |-> 200, body |-> "object", value |-> 1],
     [status |-> 200, body |-> "object_without_field", value |-> 0],
     [status |-> 200, body |-> "array", value |-> 0],
     [status |-> 200, body |-> "not_json", value |-> 0],
     [status |-> 401, body |-> "object", value |-> 0],
     [status |-> 403, body |-> "not_json", value |-> 0],
     [status |-> 429, body |-> "object", value |-> 0],
     [status |-> 500, body |-> "not_json", value |-> 0],
     Rejected}
\* For the usage endpoint the value is what extractConsumedRequests sums
\* from usageItems; a missing usageItems counts as no items.
UsageReplies ==
    {[status |-> 200, body |-> "object", value |-> 0],
     [status |-> 200, body |-> "object", value |-> 10],
     [status |-> 200, body |-> "object", value |-> 50],
     [status |-> 200, body |-> "object", value |-> 250],
     [status |-> 200, body |-> "object_without_field", value |-> 0],
     [status |-> 200, body |-> "not_json", value |-> 0],
     [status |-> 403, body |-> "object", value |-> 0],
     [status |-> 404, body |-> "object", value |-> 0],
     Rejected}

\* response.ok
IsOk(status) == status >= 200 /\ status <= 299

\* await fetch(...) then parseApiResponse: the error thrown, "" for none.
\* A rejected fetch is not caught: its TypeError leaves the builder as is.
FetchOutcome(reply) ==
    IF reply = Rejected THEN "TypeError"
    ELSE IF ~IsOk(reply.status) THEN mapHttpStatusToError(reply.status)
    ELSE IF reply.body \notin {"object", "object_without_field"}
    THEN "GITHUB_NETWORK_ERROR"
    ELSE ""

\* fetchCurrentUser: parseApiResponse, then the login check
fetchCurrentUser(reply) ==
    IF FetchOutcome(reply) # "" THEN FetchOutcome(reply)
    ELSE IF reply.body = "object_without_field" THEN "GITHUB_NETWORK_ERROR"
    ELSE ""

IdleReport ==
    [pc |-> "idle", monthlyQuota |-> 0,
     referenceDate |-> [year |-> 1970, month |-> 0, day |-> 1],
     spentThisMonth |-> 0, spentToday |-> 0,
     dailyTarget |-> [num |-> 0, den |-> 1],
     todayAvailable |-> [num |-> 0, den |-> 1],
     failure |-> NULL, error |-> "", report |-> NULL,
     userCalls |-> 0, monthCalls |-> 0, dayCalls |-> 0]

\* buildDataFromGitHub(pat, monthlyQuota, referenceDate, title) is called.
ReportCall ==
    /\ rb.pc \in {"idle", "done"}
    /\ \E q \in ReportQuotas, d \in ReportDates :
          rb' = [IdleReport EXCEPT !.pc = "user", !.monthlyQuota = q,
                                   !.referenceDate = d]
    /\ UNCHANGED <<clock, ticks, widget, polls, env, rq>>
    /\ UNCHANGED cacheVars
    /\ UNCHANGED authVars
    /\ UNCHANGED accountVars
    /\ UNCHANGED webVars

\* getDaysRemainingInMonth(referenceDate) is called on its own
DaysRemainingCall ==
    /\ rb.pc = "idle"
    /\ rb' = [rb EXCEPT !.pc = "counted",
                        !.report = Some([daysRemaining |->
                                            DaysRemainingOn(rb.referenceDate)])]
    /\ UNCHANGED <<clock, ticks, widget, polls, env, rq>>
    /\ UNCHANGED cacheVars
    /\ UNCHANGED authVars
    /\ UNCHANGED accountVars
    /\ UNCHANGED webVars

\* const user = await fetchCurrentUser(pat)
ReportFetchUser ==
    /\ rb.pc = "user"
    /\ \E reply \in UserReplies :
          LET r == [rb EXCEPT !.userCalls = @ + 1]
          IN  rb' = IF fetchCurrentUser(reply) # ""
                    THEN [r EXCEPT !.pc = "done", !.failure = Some(reply),
                                   !.error = fetchCurrentUser(reply)]
                    ELSE [r EXCEPT !.pc = "usage"]
    /\ UNCHANGED <<clock, ticks, widget, polls, env, rq>>
    /\ UNCHANGED cacheVars
    /\ UNCHANGED authVars
    /\ UNCHANGED accountVars
    /\ UNCHANGED webVars

\* Both fetchPremiumUsage calls are started, Promise.all awaits them: it
\* rejects with the error of whichever failed first; otherwise the report
\* is derived and returned.
ReportFetchUsage ==
    /\ rb.pc = "usage"
    /\ \E month \in UsageReplies, day \in UsageReplies :
          LET r == [rb EXCEPT !.monthCalls = @ + 1, !.dayCalls = @ + 1]
              failed == {x \in {month, day} : FetchOutcome(x) # ""}
              daysRemaining == DaysRemainingOn(rb.referenceDate)
              dailyTarget ==
                  unroundedDailyTarget(rb.monthlyQuota, month.value, day.value,
                                       daysRemaining)
          IN  IF failed # {}
              THEN \E x \in failed :
                     rb' = [r EXCEPT !.pc = "done", !.failure = Some(x),
                                     !.error = FetchOutcome(x)]
              ELSE rb' = [r EXCEPT
                     !.pc = "done",
                     !.spentThisMonth = month.value,
                     !.spentToday = day.value,
                     !.dailyTarget = dailyTarget,
                     !.todayAvailable = unroundedTodayAvailable(dailyTarget, day.value),
                     !.report = Some(deriveReport(rb.monthlyQuota, daysRemaining,
                                        toISOString(rb.referenceDate),
                                        CHOOSE t \in TitleChoices : TRUE,
                                        month.value, day.value))]
    /\ UNCHANGED <<clock, ticks, widget, polls, env, rq>>
    /\ UNCHANGED cacheVars
    /\ UNCHANGED authVars
    /\ UNCHANGED accountVars
    /\ UNCHANGED webVars

----------------------------------------------------------------------------
(* The OBS widget: public/obs.js                                            *)

FALLBACK_VALUE == "shrug"     \* the kaomoji the script holds as a constant
DEFAULT_TITLE == "Copilot requests available today"

\* A JSON value as the script looks at it: a string or something else.
Str(text) == Some([type |-> "string", text |-> text])
Num == Some([type |-> "number", text |-> ""])

\* What a poll of /api/obs-data meets: fetch rejects, the body cannot be
\* read, or a status with a text; json says what JSON.parse makes of the
\* text, display and title are the fields of the parsed value.
ObsReply(status, json, display, title) ==
    [kind |-> "response", status |-> status, json |-> json,
     display |-> display, title |-> title]
FetchRejects == [ObsReply(0, "none", NULL, NULL) EXCEPT !.kind = "rejected"]
TextRejects == [ObsReply(200, "none", NULL, NULL) EXCEPT !.kind = "unreadable"]
ObsReplies ==
    {ObsReply(200, "object", Str("2/12"), Str("Copilot requests available today")),
     ObsReply(200, "object", Str("-30/20"), Str("Requests left")),
     ObsReply(200, "object", Str("2/12"), NULL),
     ObsReply(200, "object", NULL, Str("Requests left")),
     ObsReply(200, "object", Str("2/12"), Str("")),
     ObsReply(200, "object", Num, Str("Requests left")),
     ObsReply(200, "array", NULL, NULL),
     ObsReply(200, "null", NULL, NULL),
     ObsReply(200, "invalid", NULL, NULL),
     ObsReply(200, "empty", NULL, NULL),
     ObsReply(503, "object", Str("2/12"), Str("Requests left")),
     ObsReply(404, "object", NULL, NULL),
     ObsReply(500, "invalid", NULL, NULL),
     TextRejects}

\* typeof value === 'string' && value.length > 0
IsNonEmptyString(value) ==
    ~IsNull(value) /\ Val(value).type = "string" /\ Val(value).text # ""

\* parseObsPayload: TRUE when it returns, FALSE when it throws. JSON.parse
\* of an empty or invalid text leaves payload null; typeof [] is 'object'.
parseObsPayload_displayOnly(reply) ==
    /\ reply.json \in {"object", "array"}
    /\ IsNonEmptyString(reply.display)
parseObsPayload(reply) ==
    /\ reply.json \in {"object", "array"}
    /\ IsNonEmptyString(reply.display)
    /\ IsNonEmptyString(reply.title)

\* loadObsData after the text has arrived: TRUE when it returns data
loadObsData(reply) == IsOk(reply.status) /\ parseObsPayload(reply)

\* setError
setError(page) == [page EXCEPT !.title = DEFAULT_TITLE, !.value = FALLBACK_VALUE]

\* textContent of a field of the returned data
TextOf(value) == IF IsNonEmptyString(value) THEN Val(value).text ELSE "undefined"

\* The page as it is served, before the script has written to it.
InitialWidget == [pc |-> "boot", title |-> "", value |-> "", started |-> 0]
IdlePoll == [pc |-> "idle", reply |-> FetchRejects]

\* bootstrap: without a uuid in the URL the error, otherwise startLoop and
\* with it the first refresh.
WidgetBootstrap ==
    /\ widget.pc = "boot"
    /\ \/ /\ widget' = [setError(widget) EXCEPT !.pc = "halted"]
          /\ UNCHANGED polls
       \/ /\ widget' = [widget EXCEPT !.pc = "loop", !.started = 1]
          /\ polls' = [polls EXCEPT ![1].pc = "fetch"]
    /\ UNCHANGED <<clock, ticks, rb, env, rq>>
    /\ UNCHANGED cacheVars
    /\ UNCHANGED authVars
    /\ UNCHANGED accountVars
    /\ UNCHANGED webVars

\* setInterval fires: another refresh, whatever the earlier ones are doing
WidgetInterval ==
    /\ widget.pc = "loop"
    /\ widget.started < MaxPolls
    /\ widget' = [widget EXCEPT !.started = @ + 1]
    /\ polls' = [polls EXCEPT ![widget.started + 1].pc = "fetch"]
    /\ UNCHANGED <<clock, ticks, rb, env, rq>>
    /\ UNCHANGED cacheVars
    /\ UNCHANGED authVars
    /\ UNCHANGED accountVars
    /\ UNCHANGED webVars

\* await fetch(url): a response, or a rejection that refresh catches
PollFetch(i) ==
    /\ polls[i].pc = "fetch"
    /\ \/ /\ polls' = [polls EXCEPT ![i] = [pc |-> "done", reply |-> FetchRejects]]
          /\ widget' = setError(widget)
       \/ /\ \E reply \in ObsReplies :
                polls' = [polls EXCEPT ![i] = [pc |-> "text", reply |-> reply]]
          /\ UNCHANGED widget
    /\ UNCHANGED <<clock, ticks, rb, env, rq>>
    /\ UNCHANGED cacheVars
    /\ UNCHANGED authVars
    /\ UNCHANGED accountVars
    /\ UNCHANGED webVars

\* await response.text(), then the rest of loadObsData and of refresh
PollText(i) ==
    /\ polls[i].pc = "text"
    /\ polls' = [polls EXCEPT ![i].pc = "done"]
    /\ LET reply == polls[i].reply
       IN  widget' = IF reply.kind = "response" /\ loadObsData(reply)
                     THEN [widget EXCEPT !.title = TextOf(reply.title),
                                         !.value = TextOf(reply.display)]
                     ELSE setError(widget)
    /\ UNCHANGED <<clock, ticks, rb, env, rq>>
    /\ UNCHANGED cacheVars
    /\ UNCHANGED authVars
    /\ UNCHANGED accountVars
    /\ UNCHANGED webVars

----------------------------------------------------------------------------
(* Required configuration: worker.ts middleware and lib/crypto              *)

\* SECRETS_ENCRYPTION_KEY_B64: not set, set to something that is not
\* base64, or base64 of so many bytes.
KeyAbsent == [present |-> FALSE, base64 |-> FALSE, bytes |-> 0]
KeyConfigs ==
    {KeyAbsent,
     [present |-> TRUE, base64 |-> FALSE, bytes |-> 0],
     [present |-> TRUE, base64 |-> TRUE, bytes |-> 16],
     [present |-> TRUE, base64 |-> TRUE, bytes |-> 32],
     [present |-> TRUE, base64 |-> TRUE, bytes |-> 48]}

CallbackPath == "/api/auth/github/callback"
Paths == {CallbackPath, "/api/auth/github/disconnect", "/api/settings"}

\* ENV_REQUIREMENT_RULES: does the path require the encryption key
RequiresKey(path) == path = CallbackPath

\* assertRequiredEnvForPath for the encryption key: TRUE when it throws.
\* The check is typeof value === 'string' && value.length > 0.
assertRequiredEnvForPath(key, path) == RequiresKey(path) /\ ~key.present

\* importAesKey: TRUE when it throws (base64ToBytes, then the length)
importAesKey(key) == ~key.base64 \/ key.bytes # 32

IdleRequest ==
    [pc |-> "idle", path |-> "", networkCalls |-> 0, dbWrites |-> 0,
     keyError |-> FALSE, served |-> 0]

\* A request to one of the paths arrives, from a signed-in user.
RequestArrives ==
    /\ rq.pc \in {"idle", "done"}
    /\ rq.served < MaxRequests
    /\ \E path \in Paths :
          rq' = [IdleRequest EXCEPT !.pc = "middleware", !.path = path,
                                    !.served = rq.served + 1]
    /\ UNCHANGED <<clock, ticks, rb, widget, polls, env>>
    /\ UNCHANGED cacheVars
    /\ UNCHANGED authVars
    /\ UNCHANGED accountVars
    /\ UNCHANGED webVars

\* app.use('/api/*'): assertRequiredEnvForPath, then next()
RequestMiddleware ==
    /\ rq.pc = "middleware"
    /\ rq' = IF assertRequiredEnvForPath(env, rq.path)
             THEN [rq EXCEPT !.pc = "done", !.keyError = TRUE]
             ELSE [rq EXCEPT !.pc = IF rq.path = CallbackPath
                                    THEN "exchange" ELSE "write"]
    /\ UNCHANGED <<clock, ticks, rb, widget, polls, env>>
    /\ UNCHANGED cacheVars
    /\ UNCHANGED authVars
    /\ UNCHANGED accountVars
    /\ UNCHANGED webVars

\* The callback: await exchangeGitHubCodeForUserTokenBundle
RequestExchange ==
    /\ rq.pc = "exchange"
    /\ rq' = [rq EXCEPT !.pc = "profile", !.networkCalls = @ + 1]
    /\ UNCHANGED <<clock, ticks, rb, widget, polls, env>>
    /\ UNCHANGED cacheVars
    /\ UNCHANGED authVars
    /\ UNCHANGED accountVars
    /\ UNCHANGED webVars

\* The callback: await fetchGitHubUserProfile
RequestProfile ==
    /\ rq.pc = "profile"
    /\ rq' = [rq EXCEPT !.pc = "save", !.networkCalls = @ + 1]
    /\ UNCHANGED <<clock, ticks, rb, widget, polls, env>>
    /\ UNCHANGED cacheVars
    /\ UNCHANGED authVars
    /\ UNCHANGED accountVars
    /\ UNCHANGED webVars

\* The callback: await saveGitHubTokenBundle, whose encryptSecret imports
\* the key before the UPDATE; on success deleteCache follows.
RequestSave ==
    /\ rq.pc = "save"
    /\ rq' = IF importAesKey(env)
             THEN [rq EXCEPT !.pc = "done", !.keyError = TRUE]
             ELSE [rq EXCEPT !.pc = "done", !.dbWrites = @ + 2]
    /\ UNCHANGED <<clock, ticks, rb, widget, polls, env>>
    /\ UNCHANGED cacheVars
    /\ UNCHANGED authVars
    /\ UNCHANGED accountVars
    /\ UNCHANGED webVars

\* PUT /api/settings and POST /api/auth/github/disconnect: their UPDATE
\* and their deleteCache; neither uses the key.
RequestWrite ==
    /\ rq.pc = "write"
    /\ rq' = [rq EXCEPT !.pc = "done", !.dbWrites = @ + 2]
    /\ UNCHANGED <<clock, ticks, rb, widget, polls, env>>
    /\ UNCHANGED cacheVars
    /\ UNCHANGED authVars
    /\ UNCHANGED accountVars
    /\ UNCHANGED webVars

----------------------------------------------------------------------------
(* Sessions: lib/auth                                                       *)

SESSION_MAX_AGE_SECONDS == 86400
SessionRequests == {1, 2, 3}
SessionTickSteps == {1, SESSION_MAX_AGE_SECONDS * 1000 - 1}

\* hashSessionToken: the SHA-256 of secret:token is not the token
hashSessionToken(token) == [sha256 |-> token]

\* The session the user signed in with, and the tokens handed out so far.
InitialSessions ==
    [rows |-> {[token_hash |-> hashSessionToken(1),
                expires_at |-> StartClock + SESSION_MAX_AGE_SECONDS * 1000]},
     issued |-> 1]

\* getSessionUser's SELECT ... WHERE token_hash = ? AND expires_at > ?,
\* joined with users: the rows it matches
SelectSession_ignoresExpiry(rows, exists, tokenHash, now) ==
    {row \in rows : exists /\ row.token_hash = tokenHash}
SelectSession(rows, exists, tokenHash, now) ==
    {row \in rows : exists /\ row.token_hash = tokenHash /\ row.expires_at > now}

IdleSession ==
    [pc |-> "idle", kind |-> "", token |-> NULL, now |-> 0, user |-> NULL]

\* A request arrives with the cookie of a token handed out earlier, or
\* with none: one that needs the signed-in user, or POST /api/auth/logout.
\* Without a token getSessionUser returns null and destroySession returns.
SessionRequest(r) ==
    /\ sr[r].pc = "idle"
    /\ \E kind \in {"auth", "logout"}, token \in 0..sessions.issued :
          sr' = [sr EXCEPT ![r] =
                   IF token = 0
                   THEN [IdleSession EXCEPT !.pc = "done", !.kind = kind]
                   ELSE [IdleSession EXCEPT !.pc = "hash", !.kind = kind,
                                            !.token = Some(token)]]
    /\ UNCHANGED <<clock, ticks, sessions, obs, og, rb, widget, polls, env, rq>>
    /\ UNCHANGED apiVars
    /\ UNCHANGED cacheVars
    /\ UNCHANGED authVars
    /\ UNCHANGED accountVars

\* await hashSessionToken; getSessionUser then takes now = Date.now()
SessionHash(r) ==
    /\ sr[r].pc = "hash"
    /\ sr' = [sr EXCEPT ![r].pc = IF sr[r].kind = "auth" THEN "select" ELSE "delete",
                        ![r].now = clock]
    /\ UNCHANGED <<clock, ticks, sessions, obs, og, rb, widget, polls, env, rq>>
    /\ UNCHANGED apiVars
    /\ UNCHANGED cacheVars
    /\ UNCHANGED authVars
    /\ UNCHANGED accountVars

\* getSessionUser: await the SELECT; a row gives the user, none gives null
SessionSelect(r) ==
    /\ sr[r].pc = "select"
    /\ LET found == SelectSession(sessions.rows, account.exists,
                                  hashSessionToken(Val(sr[r].token)), sr[r].now)
       IN  sr' = [sr EXCEPT ![r].pc = "done",
                            ![r].user = IF found = {} THEN NULL
                                        ELSE Some(CHOOSE row \in found : TRUE)]
    /\ UNCHANGED <<clock, ticks, sessions, obs, og, rb, widget, polls, env, rq>>
    /\ UNCHANGED apiVars
    /\ UNCHANGED cacheVars
    /\ UNCHANGED authVars
    /\ UNCHANGED accountVars

\* destroySession: await DELETE FROM sessions WHERE token_hash = ?, then
\* the logout handler answers ok
SessionDelete(r) ==
    /\ sr[r].pc = "delete"
    /\ sessions' = [sessions EXCEPT !.rows =
                       {row \in @ : row.token_hash # hashSessionToken(Val(sr[r].token))}]
    /\ sr' = [sr EXCEPT ![r].pc = "done"]
    /\ UNCHANGED <<clock, ticks, obs, og, rb, widget, polls, env, rq>>
    /\ UNCHANGED apiVars
    /\ UNCHANGED cacheVars
    /\ UNCHANGED authVars
    /\ UNCHANGED accountVars

\* createSession for the user: now = Date.now(), await the DELETE of the
\* expired rows
CreateSessionPurge(r) ==
    /\ sr[r].pc = "idle"
    /\ sessions.issued < MaxSessions
    /\ account.exists
    /\ sessions' = [sessions EXCEPT !.rows = {row \in @ : ~(row.expires_at <= clock)}]
    /\ sr' = [sr EXCEPT ![r] = [IdleSession EXCEPT !.pc = "insert", !.kind = "login",
                                                  !.now = clock]]
    /\ UNCHANGED <<clock, ticks, obs, og, rb, widget, polls, env, rq>>
    /\ UNCHANGED apiVars
    /\ UNCHANGED cacheVars
    /\ UNCHANGED authVars
    /\ UNCHANGED accountVars

\* createSession: a new opaque token, await the INSERT of its hash
CreateSessionInsert(r) ==
    /\ sr[r].pc = "insert"
    /\ LET token == sessions.issued + 1
           expiresAt == sr[r].now + SESSION_MAX_AGE_SECONDS * 1000
       IN  /\ sessions' =
                 [rows |-> IF ForeignKeyHolds(account.exists)
                           THEN sessions.rows \cup
                                  {[token_hash |-> hashSessionToken(token),
                                    expires_at |-> expiresAt]}
                           ELSE sessions.rows,
                  issued |-> token]
           /\ sr' = [sr EXCEPT ![r].pc = "done", ![r].token = Some(token)]
    /\ UNCHANGED <<clock, ticks, obs, og, rb, widget, polls, env, rq>>
    /\ UNCHANGED apiVars
    /\ UNCHANGED cacheVars
    /\ UNCHANGED authVars
    /\ UNCHANGED accountVars

----------------------------------------------------------------------------
(* The OBS link: worker.ts                                                  *)

ObsRequests == {1, 2, 3}

\* The user's obs_uuid as upsertUser generated it.
InitialObs == [uuid |-> 1, issued |-> 1]

\* GET /api/obs-data: SELECT ... FROM users WHERE obs_uuid = ?
SelectByObsUuid_anyIssued(o, exists, uuid) == exists /\ uuid \in 1..o.issued
SelectByObsUuid(o, exists, uuid) == exists /\ uuid = o.uuid

IdleObs ==
    [pc |-> "idle", kind |-> "", uuid |-> 0, previous |-> 0, found |-> FALSE]

\* POST /api/obs/regenerate: requireAuthUser (the user as the session row
\* joined it, with the obs_uuid of that moment), crypto.randomUUID()
RegenerateBegin(r) ==
    /\ og[r].pc = "idle"
    /\ obs.issued < MaxUuids
    /\ requireAuthUser(account)
    /\ og' = [og EXCEPT ![r] = [IdleObs EXCEPT !.pc = "update", !.kind = "regenerate",
                                              !.uuid = obs.issued + 1,
                                              !.previous = obs.uuid]]
    /\ obs' = [obs EXCEPT !.issued = @ + 1]
    /\ UNCHANGED <<clock, ticks, sessions, sr, rb, widget, polls, env, rq>>
    /\ UNCHANGED apiVars
    /\ UNCHANGED cacheVars
    /\ UNCHANGED authVars
    /\ UNCHANGED accountVars

\* await UPDATE users SET obs_uuid = ? WHERE id = ?, then the obsUrl
RegenerateUpdate(r) ==
    /\ og[r].pc = "update"
    /\ obs' = [obs EXCEPT !.uuid = UpdateWhereId(account.exists, @, og[r].uuid)]
    /\ og' = [og EXCEPT ![r].pc = "done"]
    /\ UNCHANGED <<clock, ticks, sessions, sr, rb, widget, polls, env, rq>>
    /\ UNCHANGED apiVars
    /\ UNCHANGED cacheVars
    /\ UNCHANGED authVars
    /\ UNCHANGED accountVars

\* GET /api/obs-data?uuid=...: a UUID that was in some OBS link
ObsDataRequest(r) ==
    /\ og[r].pc = "idle"
    /\ \E uuid \in 1..obs.issued :
          og' = [og EXCEPT ![r] = [IdleObs EXCEPT !.pc = "select", !.kind = "data",
                                                  !.uuid = uuid]]
    /\ UNCHANGED <<clock, ticks, obs, sessions, sr, rb, widget, polls, env, rq>>
    /\ UNCHANGED apiVars
    /\ UNCHANGED cacheVars
    /\ UNCHANGED authVars
    /\ UNCHANGED accountVars

\* await the SELECT: no row is 404 NOT_FOUND, a row goes on to loadData
ObsDataSelect(r) ==
    /\ og[r].pc = "select"
    /\ og' = [og EXCEPT ![r].pc = "done",
                        ![r].found = SelectByObsUuid(obs, account.exists, og[r].uuid)]
    /\ UNCHANGED <<clock, ticks, obs, sessions, sr, rb, widget, polls, env, rq>>
    /\ UNCHANGED apiVars
    /\ UNCHANGED cacheVars
    /\ UNCHANGED authVars
    /\ UNCHANGED accountVars

----------------------------------------------------------------------------
(* The usage_cache table: lib/cache and the migrations                      *)

CacheUsers == {1, 2}     \* ids of users whose rows exist
TableInstants == {StartClock - 1, StartClock}

\* The row of a user as the statement of saveDataCache binds it.
TableRow(userId, payload, updatedAt) ==
    LET row == CacheRow(payload, updatedAt)
    IN  [user_id |-> userId, payload_json |-> row.payload_json,
         updated_at |-> row.updated_at, payload_version |-> row.payload_version]

\* A row a deployment with another PAYLOAD_VERSION left behind.
OtherVersionRow(userId) ==
    [TableRow(userId, LegacyPayload, StartClock - 1) EXCEPT !.payload_version = 2]

\* INSERT INTO usage_cache ... ON CONFLICT(user_id) DO UPDATE SET
\* payload_json, updated_at, payload_version = excluded.*; user_id is the
\* PRIMARY KEY of the table
Upsert_keepsVersion(rows, excluded) ==
    IF \E r \in rows : r.user_id = excluded.user_id
    THEN {IF r.user_id = excluded.user_id
          THEN [r EXCEPT !.payload_json = excluded.payload_json,
                         !.updated_at = excluded.updated_at]
          ELSE r : r \in rows}
    ELSE rows \cup {excluded}
Upsert(rows, excluded) ==
    IF \E r \in rows : r.user_id = excluded.user_id
    THEN {IF r.user_id = excluded.user_id
          THEN [r EXCEPT !.payload_json = excluded.payload_json,
                         !.updated_at = excluded.updated_at,
                         !.payload_version = excluded.payload_version]
          ELSE r : r \in rows}
    ELSE rows \cup {excluded}

\* DELETE FROM usage_cache WHERE user_id = ?
DeleteWhereUserId(rows, userId) == {r \in rows : r.user_id # userId}

\* saveDataCache runs its statement; `wrote` keeps what it bound and
\* `conflict` whether the user had a row
SaveDataCacheRun(userId) ==
    /\ \E payload \in {EarlierPayload, LegacyPayload}, updatedAt \in TableInstants :
          LET excluded == TableRow(userId, payload, updatedAt)
          IN  tbl' = [rows |-> Upsert(tbl.rows, excluded), wrote |-> Some(excluded),
                      conflict |-> \E r \in tbl.rows : r.user_id = userId,
                      statements |-> tbl.statements + 1]
    /\ tbl.statements < MaxStatements
    /\ UNCHANGED <<clock, ticks, me, sessions, sr, obs, og, rb, widget, polls, env, rq>>
    /\ UNCHANGED cacheVars
    /\ UNCHANGED authVars
    /\ UNCHANGED accountVars

\* deleteCache runs its statement
DeleteCacheRun(userId) ==
    /\ tbl.statements < MaxStatements
    /\ tbl' = [rows |-> DeleteWhereUserId(tbl.rows, userId), wrote |-> NULL,
               conflict |-> FALSE, statements |-> tbl.statements + 1]
    /\ UNCHANGED <<clock, ticks, me, sessions, sr, obs, og, rb, widget, polls, env, rq>>
    /\ UNCHANGED cacheVars
    /\ UNCHANGED authVars
    /\ UNCHANGED accountVars

----------------------------------------------------------------------------
(* GET /api/obs-data from its SELECT to loadData: worker.ts                 *)

\* normalizeObsTitle: the trimmed title, the default for none. The titles
\* of the model hold no HTML tags, so stripHtmlTags leaves them as they are.
normalizeObsTitle(value) ==
    LET trimmedValue == IF IsNull(value) THEN NoTitle ELSE Trim(Val(value))
    IN  IF trimmedValue.len > 0
        THEN [text |-> trimmedValue.text, len |-> trimmedValue.len]
        ELSE CHOOSE t \in TitleChoices : TRUE

\* lines 854-865: hasQuota && hasCipher && hasIv of the row the SELECT gave
isObsSourceConfigured_quotaOnly(acc, row) ==
    acc.exists /\ ~IsNull(acc.monthly_quota)
isObsSourceConfigured(acc, row) ==
    /\ acc.exists
    /\ ~IsNull(acc.monthly_quota)
    /\ ~IsNull(row.github_refresh_token_ciphertext)
    /\ ~IsNull(row.github_refresh_token_iv)

\* The SELECT by obs_uuid completes: 404 NOT_FOUND for no row or a row
\* that is not configured, otherwise loadData is called with the quota
\* and the title of the row and the user's stored credential.
ObsDataLoad(q) ==
    /\ ld[q].pc = "idle"
    /\ loads < MaxLoads
    /\ ld' = [ld EXCEPT ![q] =
                IF isObsSourceConfigured(account, users)
                THEN [IdleLoad EXCEPT !.pc = "select",
                        !.input = Some([now |-> NULL,
                                        monthlyQuota |-> Val(account.monthly_quota),
                                        title |-> normalizeObsTitle(account.obs_title),
                                        patCiphertext |-> Some("ciphertext"),
                                        patIv |-> Some("iv")])]
                ELSE [IdleLoad EXCEPT !.pc = "done", !.error = Some("NOT_FOUND"),
                                      !.result = Thrown("NOT_FOUND")]]
    /\ loads' = loads + 1
    /\ UNCHANGED <<clock, ticks, usage_cache>>
    /\ UNCHANGED authVars
    /\ UNCHANGED restVars

----------------------------------------------------------------------------
(* GET /api/me: worker.ts                                                   *)

IdleMe ==
    [pc |-> "idle", settingsRow |-> NULL, cacheUpdatedAt |-> NULL,
     loader |-> NULL, event |-> "", response |-> NULL]

\* getCacheUpdatedAt (lib/cache): SELECT updated_at, null without a row
getCacheUpdatedAt(cache) ==
    IF IsNull(cache) THEN NULL ELSE Some(Val(cache).updated_at)

\* const githubConnected, githubAuthInvalid, githubAuthStatus
githubConnectedOf(row) ==
    /\ ~IsNull(row.github_refresh_token_ciphertext)
    /\ ~IsNull(row.github_refresh_token_iv)
githubAuthStatus_ignoresInvalidAt(row) ==
    IF ~githubConnectedOf(row) THEN "missing" ELSE "connected"
githubAuthStatus(row) ==
    IF ~githubConnectedOf(row)
    THEN "missing"
    ELSE IF ~IsNull(row.github_auth_invalid_at) /\ Val(row.github_auth_invalid_at) > 0
    THEN "reconnect_required"
    ELSE "connected"

\* dashboardData = { dailyTarget, daysRemaining, display, monthRemaining,
\* todayAvailable } of result.payload
DashboardKeys ==
    {"dailyTarget", "daysRemaining", "display", "monthRemaining", "todayAvailable"}
dashboardDataOf(payload) == [k \in DashboardKeys |-> payload[k]]

\* Response.json({...}) of the handler; the Twitch profile of the session
\* is the same in every response and is left out
MeResponse(row, cacheUpdatedAt, dashboardData) ==
    [status |-> 200, code |-> "",
     body |-> Some(
        [cacheUpdatedAt |->
             IF IsNull(cacheUpdatedAt) THEN NULL
             ELSE Some(toISOString(Val(cacheUpdatedAt))),
         dashboardData |-> dashboardData,
         githubAuthStatus |-> githubAuthStatus(row),
         githubConnected |-> githubConnectedOf(row),
         githubLogin |-> row.github_login,
         monthlyQuota |-> row.monthly_quota,
         obsTitle |-> normalizeObsTitle(row.obs_title)])]

\* await requireAuthUser
MeBegin ==
    /\ me.pc = "idle"
    /\ requireAuthUser(account)
    /\ me' = [IdleMe EXCEPT !.pc = "select"]
    /\ UNCHANGED <<clock, ticks, rb, widget, polls, env, rq, sessions, sr, obs, og, tbl>>
    /\ UNCHANGED cacheVars
    /\ UNCHANGED authVars
    /\ UNCHANGED accountVars

\* await the SELECT of the settings row; 404 when the user is gone
MeSelect ==
    /\ me.pc = "select"
    /\ me' = IF ~account.exists
             THEN [me EXCEPT !.pc = "done",
                             !.response = Some([status |-> 404, code |-> "NOT_FOUND",
                                                body |-> NULL])]
             ELSE [me EXCEPT !.pc = "cacheUpdatedAt",
                             !.settingsRow = Some(
                                 [github_auth_invalid_at |-> users.github_auth_invalid_at,
                                  github_login |-> users.github_login,
                                  github_refresh_token_ciphertext |->
                                      users.github_refresh_token_ciphertext,
                                  github_refresh_token_iv |->
                                      users.github_refresh_token_iv,
                                  monthly_quota |-> account.monthly_quota,
                                  obs_title |-> account.obs_title])]
    /\ UNCHANGED <<clock, ticks, rb, widget, polls, env, rq, sessions, sr, obs, og, tbl>>
    /\ UNCHANGED cacheVars
    /\ UNCHANGED authVars
    /\ UNCHANGED accountVars

\* await getCacheUpdatedAt, then everything up to the call of loadData;
\* without a connection or a quota the response follows at once
MeCacheUpdatedAt ==
    /\ me.pc = "cacheUpdatedAt"
    /\ LET row == Val(me.settingsRow)
           cacheUpdatedAt == getCacheUpdatedAt(usage_cache)
       IN  IF githubConnectedOf(row) /\ ~IsNull(row.monthly_quota)
           THEN \E q \in LoadProcs :
                   /\ ld[q].pc = "idle"
                   /\ loads < MaxLoads
                   /\ ld' = [ld EXCEPT ![q] =
                               [IdleLoad EXCEPT !.pc = "select",
                                   !.input = Some([now |-> NULL,
                                       monthlyQuota |-> Val(row.monthly_quota),
                                       title |-> normalizeObsTitle(row.obs_title),
                                       patCiphertext |-> Some("ciphertext"),
                                       patIv |-> Some("iv")])]]
                   /\ loads' = loads + 1
                   /\ me' = [me EXCEPT !.pc = "load", !.loader = Some(q),
                                       !.cacheUpdatedAt = cacheUpdatedAt]
           ELSE /\ me' = [me EXCEPT !.pc = "done",
                                    !.cacheUpdatedAt = cacheUpdatedAt,
                                    !.response =
                                        Some(MeResponse(row, cacheUpdatedAt, NULL))]
                /\ UNCHANGED <<ld, loads>>
    /\ UNCHANGED <<clock, ticks, usage_cache>>
    /\ UNCHANGED <<rb, widget, polls, env, rq, sessions, sr, obs, og, tbl>>
    /\ UNCHANGED authVars
    /\ UNCHANGED accountVars

\* loadData has returned or thrown: the try block's outcome, then
\* Response.json
MeRespond ==
    /\ me.pc = "load"
    /\ LET q == Val(me.loader)
           result == Val(ld[q].result)
           row == Val(me.settingsRow)
       IN  /\ ld[q].pc = "done"
           /\ me' = [me EXCEPT
                       !.pc = "done",
                       !.event = CASE result.kind = "value" -> "dashboard_loaded"
                                   [] result.kind = "null" -> "dashboard_null"
                                   [] OTHER -> "dashboard_failed",
                       !.response = Some(MeResponse(row, me.cacheUpdatedAt,
                           IF result.kind = "value"
                           THEN Some(dashboardDataOf(Val(result.payload)))
                           ELSE NULL))]
           /\ ld' = [ld EXCEPT ![q] = IdleLoad]
    /\ UNCHANGED <<clock, ticks, usage_cache, loads>>
    /\ UNCHANGED <<rb, widget, polls, env, rq, sessions, sr, obs, og, tbl>>
    /\ UNCHANGED authVars
    /\ UNCHANGED accountVars

----------------------------------------------------------------------------
(* Specifications                                                           *)

\* The bundle an authorization at the instant `authorizedAt` stored.
ConnectedRow(authorizedAt) ==
    saveGitHubTokenBundle(DisconnectedRow,
        [accessToken |-> AccessToken(1),
         accessTokenExpiresAt |-> getAbsoluteExpiryTimestamp(authorizedAt, 120),
         githubLogin |-> Some("octocat"),
         githubUserId |-> Some("583231"),
         refreshToken |-> RefreshToken(1),
         refreshTokenExpiresAt |->
             getAbsoluteExpiryTimestamp(authorizedAt, RefreshExpiresIn)])

\* loadData requests over the usage cache of one user
Init ==
    /\ clock = StartClock
    /\ ticks = 0
    /\ usage_cache \in InitialCacheRows
    /\ ld = [q \in LoadProcs |-> IdleLoad]
    /\ loads = 0
    /\ users = DisconnectedRow
    /\ github = [issued |-> 0, accepted |-> {}]
    /\ gh = [p \in Callers |-> IdleCall]
    /\ cb = IdleCallback
    /\ calls = 0
    /\ account = InitialAccount
    /\ web = IdleWeb
    /\ del = "idle"
    /\ login = [pc |-> "idle", served |-> 0, failed |-> FALSE]
    /\ rb = IdleReport
    /\ widget = InitialWidget
    /\ polls = [i \in 1..MaxPolls |-> IdlePoll]
    /\ env = [present |-> TRUE, base64 |-> TRUE, bytes |-> 32]
    /\ rq = IdleRequest
    /\ sessions = InitialSessions
    /\ sr = [r \in SessionRequests |-> IdleSession]
    /\ obs = InitialObs
    /\ og = [r \in ObsRequests |-> IdleObs]
    /\ tbl = [rows |-> {}, wrote |-> NULL, conflict |-> FALSE, statements |-> 0]
    /\ me = IdleMe

Next ==
    \/ \E q \in LoadProcs :
          \/ LoadDataCall(q)
          \/ CacheSelect(q)
          \/ CacheHeal(q)
          \/ DecryptPat(q)
          \/ FetchCurrentUser(q)
          \/ FetchPremiumUsage(q)
          \/ SaveCache(q)
          \/ LoadDataReturn(q)
    \/ Tick(CacheTickSteps, MaxTicks)

Spec == Init /\ [][Next]_vars

\* token-manager requests and the authorization callback of one user
InitAuth ==
    /\ clock = StartClock
    /\ ticks = 0
    /\ usage_cache = Some(CacheRow(EarlierPayload, StartClock - CACHE_TTL_MS + 1))
    /\ ld = [q \in LoadProcs |-> IdleLoad]
    /\ loads = 0
    /\ \/ users = DisconnectedRow /\ github = [issued |-> 0, accepted |-> {}]
       \/ /\ users \in {ConnectedRow(StartClock),
                       ConnectedRow(StartClock - ACCESS_TOKEN_EXPIRY_SAFETY_MS)}
          /\ github = [issued |-> 1, accepted |-> {1}]
    /\ gh = [p \in Callers |-> IdleCall]
    /\ cb = IdleCallback
    /\ calls = 0
    /\ account = InitialAccount
    /\ web = IdleWeb
    /\ del = "idle"
    /\ login = [pc |-> "idle", served |-> 0, failed |-> FALSE]
    /\ rb = IdleReport
    /\ widget = InitialWidget
    /\ polls = [i \in 1..MaxPolls |-> IdlePoll]
    /\ env = [present |-> TRUE, base64 |-> TRUE, bytes |-> 32]
    /\ rq = IdleRequest
    /\ sessions = InitialSessions
    /\ sr = [r \in SessionRequests |-> IdleSession]
    /\ obs = InitialObs
    /\ og = [r \in ObsRequests |-> IdleObs]
    /\ tbl = [rows |-> {}, wrote |-> NULL, conflict |-> FALSE, statements |-> 0]
    /\ me = IdleMe

NextAuth ==
    \/ \E p \in Callers :
          \/ TokenCall(p)
          \/ TokenLoad(p)
          \/ TokenRefresh(p)
          \/ TokenSave(p)
          \/ TokenReread(p)
          \/ TokenMarkInvalid(p)
          \/ TokenReturn(p)
    \/ CallbackExchange
    \/ CallbackSave
    \/ CallbackDeleteCache
    \/ GitHubRevokes
    \/ Tick(AuthTickSteps, MaxAuthTicks)

SpecAuth == InitAuth /\ [][NextAuth]_vars

\* account management next to one loadData request, one token request and
\* the authorization callback of the same user
InitAccount ==
    /\ clock = StartClock
    /\ ticks = 0
    /\ usage_cache = Some(CacheRow(EarlierPayload, StartClock - CACHE_TTL_MS + 1))
    /\ ld = [q \in LoadProcs |-> IdleLoad]
    /\ loads = 0
    /\ users = ConnectedRow(StartClock - ACCESS_TOKEN_EXPIRY_SAFETY_MS)
    /\ \E accepted \in {{}, {1}} : github = [issued |-> 1, accepted |-> accepted]
    /\ gh = [p \in Callers |-> IdleCall]
    /\ cb = IdleCallback
    /\ calls = 0
    /\ account = InitialAccount
    /\ web = IdleWeb
    /\ del = "idle"
    /\ login = [pc |-> "idle", served |-> 0, failed |-> FALSE]
    /\ rb = IdleReport
    /\ widget = InitialWidget
    /\ polls = [i \in 1..MaxPolls |-> IdlePoll]
    /\ env = [present |-> TRUE, base64 |-> TRUE, bytes |-> 32]
    /\ rq = IdleRequest
    /\ sessions = InitialSessions
    /\ sr = [r \in SessionRequests |-> IdleSession]
    /\ obs = InitialObs
    /\ og = [r \in ObsRequests |-> IdleObs]
    /\ tbl = [rows |-> {}, wrote |-> NULL, conflict |-> FALSE, statements |-> 0]
    /\ me = IdleMe

\* The requests of the dashboard and of the widget look the user up
\* before they load; here one of them, with a stored credential, the
\* server's clock and an upstream that knows the user.
AccountLoad ==
    /\ account.exists
    /\ loads = 0
    /\ LoadDataCall(1)
    /\ Val(ld'[1].input).now = NULL
    /\ Val(ld'[1].input).patCiphertext = Some("ciphertext")
    /\ Val(ld'[1].input).title = CHOOSE t \in TitleChoices : TRUE

\* Management requests begun so far: settings, disconnect, authorization
\* callback and login.
AccountRequests ==
    web.served + cb.served + login.served
    + (IF web.pc = "idle" THEN 0 ELSE 1)
    + (IF cb.pc = "idle" THEN 0 ELSE 1)
    + (IF login.pc = "idle" THEN 0 ELSE 1)

NextAccount ==
    \/ AccountLoad
    \/ CacheSelect(1)
    \/ DecryptPat(1)
    \/ (FetchCurrentUser(1) /\ ld'[1].pc = "usage")
    \/ (FetchPremiumUsage(1) /\ ld'[1].pc = "save")
    \/ SaveCache(1)
    \/ LoadDataReturn(1)
    \/ (account.exists /\ calls = 0 /\ TokenCall(1))
    \/ TokenLoad(1)
    \/ (TokenRefresh(1) /\ gh'[1].error # Some(GatewayExpired))
    \/ TokenSave(1)
    \/ TokenReread(1)
    \/ TokenMarkInvalid(1)
    \/ TokenReturn(1)
    \/ (AccountRequests < MaxChanges /\ CallbackExchange)
    \/ CallbackSave
    \/ CallbackDeleteCache
    \/ (AccountRequests < MaxChanges /\ SettingsBegin)
    \/ SettingsSelect
    \/ SettingsUpdate
    \/ SettingsDeleteCache
    \/ (AccountRequests < MaxChanges /\ DisconnectBegin)
    \/ DisconnectClear
    \/ DisconnectDeleteCache
    \/ DeleteBegin
    \/ AccountDelete
    \/ (AccountRequests < MaxChanges /\ LoginUpsert)
    \/ LoginCreateSession

SpecAccount == InitAccount /\ [][NextAccount]_vars

\* The Worker at rest: a signed-in user without a GitHub connection.
ServerAtRest ==
    /\ clock = StartClock
    /\ ticks = 0
    /\ usage_cache = NULL
    /\ ld = [q \in LoadProcs |-> IdleLoad]
    /\ loads = 0
    /\ users = DisconnectedRow
    /\ github = [issued |-> 0, accepted |-> {}]
    /\ gh = [p \in Callers |-> IdleCall]
    /\ cb = IdleCallback
    /\ calls = 0
    /\ account = InitialAccount
    /\ web = IdleWeb
    /\ del = "idle"
    /\ login = [pc |-> "idle", served |-> 0, failed |-> FALSE]

\* buildDataFromGitHub called again and again, over every quota, date and
\* upstream reply
InitReport ==
    /\ ServerAtRest
    /\ rb = IdleReport
    /\ widget = InitialWidget
    /\ polls = [i \in 1..MaxPolls |-> IdlePoll]
    /\ env = [present |-> TRUE, base64 |-> TRUE, bytes |-> 32]
    /\ rq = IdleRequest
    /\ sessions = InitialSessions
    /\ sr = [r \in SessionRequests |-> IdleSession]
    /\ obs = InitialObs
    /\ og = [r \in ObsRequests |-> IdleObs]
    /\ tbl = [rows |-> {}, wrote |-> NULL, conflict |-> FALSE, statements |-> 0]
    /\ me = IdleMe

NextReport ==
    \/ ReportCall
    \/ ReportFetchUser
    \/ ReportFetchUsage

SpecReport == InitReport /\ [][NextReport]_vars

\* the widget page in a browser source
InitWidget ==
    /\ ServerAtRest
    /\ rb = IdleReport
    /\ widget = InitialWidget
    /\ polls = [i \in 1..MaxPolls |-> IdlePoll]
    /\ env = [present |-> TRUE, base64 |-> TRUE, bytes |-> 32]
    /\ rq = IdleRequest
    /\ sessions = InitialSessions
    /\ sr = [r \in SessionRequests |-> IdleSession]
    /\ obs = InitialObs
    /\ og = [r \in ObsRequests |-> IdleObs]
    /\ tbl = [rows |-> {}, wrote |-> NULL, conflict |-> FALSE, statements |-> 0]
    /\ me = IdleMe

NextWidget ==
    \/ WidgetBootstrap
    \/ WidgetInterval
    \/ \E i \in 1..MaxPolls : PollFetch(i)
    \/ \E i \in 1..MaxPolls : PollText(i)

SpecWidget == InitWidget /\ [][NextWidget]_vars

\* the Worker deployed with one or another encryption key
InitKey ==
    /\ ServerAtRest
    /\ rb = IdleReport
    /\ widget = InitialWidget
    /\ polls = [i \in 1..MaxPolls |-> IdlePoll]
    /\ env \in KeyConfigs
    /\ rq = IdleRequest
    /\ sessions = InitialSessions
    /\ sr = [r \in SessionRequests |-> IdleSession]
    /\ obs = InitialObs
    /\ og = [r \in ObsRequests |-> IdleObs]
    /\ tbl = [rows |-> {}, wrote |-> NULL, conflict |-> FALSE, statements |-> 0]
    /\ me = IdleMe

NextKey ==
    \/ RequestArrives
    \/ RequestMiddleware
    \/ RequestExchange
    \/ RequestProfile
    \/ RequestSave
    \/ RequestWrite

SpecKey == InitKey /\ [][NextKey]_vars

\* overlapping token-manager calls for a user who connected GitHub, whose
\* grant GitHub may have revoked since, while time passes
InitToken ==
    /\ clock = StartClock
    /\ ticks = 0
    /\ usage_cache = NULL
    /\ ld = [q \in LoadProcs |-> IdleLoad]
    /\ loads = 0
    /\ users \in {ConnectedRow(StartClock),
                  ConnectedRow(StartClock - ACCESS_TOKEN_EXPIRY_SAFETY_MS)}
    /\ github \in {[issued |-> 1, accepted |-> {1}], [issued |-> 1, accepted |-> {}]}
    /\ gh = [p \in Callers |-> IdleCall]
    /\ cb = IdleCallback
    /\ calls = 0
    /\ account = InitialAccount
    /\ web = IdleWeb
    /\ del = "idle"
    /\ login = [pc |-> "idle", served |-> 0, failed |-> FALSE]
    /\ rb = IdleReport
    /\ widget = InitialWidget
    /\ polls = [i \in 1..MaxPolls |-> IdlePoll]
    /\ env = [present |-> TRUE, base64 |-> TRUE, bytes |-> 32]
    /\ rq = IdleRequest
    /\ sessions = InitialSessions
    /\ sr = [r \in SessionRequests |-> IdleSession]
    /\ obs = InitialObs
    /\ og = [r \in ObsRequests |-> IdleObs]
    /\ tbl = [rows |-> {}, wrote |-> NULL, conflict |-> FALSE, statements |-> 0]
    /\ me = IdleMe

NextToken ==
    \/ \E p \in Callers :
          \/ TokenCall(p)
          \/ TokenLoad(p)
          \/ TokenRefresh(p)
          \/ TokenSave(p)
          \/ TokenReread(p)
          \/ TokenMarkInvalid(p)
          \/ TokenReturn(p)
    \/ Tick(TokenTickSteps, MaxTicks)

SpecToken == InitToken /\ [][NextToken]_vars

\* the calls alone, every await of a call in flight settling in the end
NextTokenCalls ==
    \E p \in Callers :
        \/ TokenCall(p)
        \/ TokenLoad(p)
        \/ TokenRefresh(p)
        \/ TokenSave(p)
        \/ TokenReread(p)
        \/ TokenMarkInvalid(p)
        \/ TokenReturn(p)

SpecTokenFair ==
    /\ InitToken
    /\ [][NextTokenCalls]_vars
    /\ \A p \in Callers :
          /\ WF_vars(TokenLoad(p))
          /\ WF_vars(TokenRefresh(p))
          /\ WF_vars(TokenSave(p))
          /\ WF_vars(TokenReread(p))
          /\ WF_vars(TokenMarkInvalid(p))

\* the widget's requests for a user who may change settings or disconnect
\* GitHub in between: configured or not, connected or not, with a fresh
\* cache entry, a stale one or none
InitData ==
    /\ clock = StartClock
    /\ ticks = 0
    /\ usage_cache \in {NULL,
                        Some(CacheRow(EarlierPayload, StartClock - CACHE_TTL_MS)),
                        Some(CacheRow(EarlierPayload, StartClock - CACHE_TTL_MS - 1))}
    /\ ld = [q \in LoadProcs |-> IdleLoad]
    /\ loads = 0
    /\ users \in {DisconnectedRow, ConnectedRow(StartClock)}
    /\ github = [issued |-> 1, accepted |-> {1}]
    /\ gh = [p \in Callers |-> IdleCall]
    /\ cb = IdleCallback
    /\ calls = 0
    /\ account \in {InitialAccount, [InitialAccount EXCEPT !.monthly_quota = Some(300)]}
    /\ web = IdleWeb
    /\ del = "idle"
    /\ login = [pc |-> "idle", served |-> 0, failed |-> FALSE]
    /\ rb = IdleReport
    /\ widget = InitialWidget
    /\ polls = [i \in 1..MaxPolls |-> IdlePoll]
    /\ env = [present |-> TRUE, base64 |-> TRUE, bytes |-> 32]
    /\ rq = IdleRequest
    /\ sessions = InitialSessions
    /\ sr = [r \in SessionRequests |-> IdleSession]
    /\ obs = InitialObs
    /\ og = [r \in ObsRequests |-> IdleObs]
    /\ tbl = [rows |-> {}, wrote |-> NULL, conflict |-> FALSE, statements |-> 0]
    /\ me = IdleMe

NextData ==
    \/ \E q \in LoadProcs :
          \/ ObsDataLoad(q)
          \/ CacheSelect(q)
          \/ DecryptPat(q)
          \/ FetchCurrentUser(q)
          \/ FetchPremiumUsage(q)
          \/ SaveCache(q)
          \/ LoadDataReturn(q)
    \/ SettingsBegin
    \/ SettingsSelect
    \/ SettingsUpdate
    \/ SettingsDeleteCache
    \/ DisconnectBegin
    \/ DisconnectClear
    \/ DisconnectDeleteCache

SpecData == InitData /\ [][NextData]_vars

\* GET /api/me for a user who is or is not connected, whose authorization
\* may be marked invalid, with or without a quota, over a cache entry that
\* is fresh, stale, corrupt or absent, while the user may disconnect
InitMe ==
    /\ clock = StartClock
    /\ ticks = 0
    /\ usage_cache \in
          {NULL,
           Some(CacheRow(EarlierPayload, StartClock - CACHE_TTL_MS)),
           Some(CacheRow(EarlierPayload, StartClock - CACHE_TTL_MS - 1)),
           Some([CacheRow(EarlierPayload, StartClock - 1) EXCEPT !.payload_version = 2])}
    /\ ld = [q \in LoadProcs |-> IdleLoad]
    /\ loads = 0
    /\ users \in {DisconnectedRow, ConnectedRow(StartClock),
                  markGitHubAuthInvalid(ConnectedRow(StartClock), StartClock - 1)}
    /\ github = [issued |-> 1, accepted |-> {1}]
    /\ gh = [p \in Callers |-> IdleCall]
    /\ cb = IdleCallback
    /\ calls = 0
    /\ account \in {InitialAccount, [InitialAccount EXCEPT !.monthly_quota = Some(300)]}
    /\ web = IdleWeb
    /\ del = "idle"
    /\ login = [pc |-> "idle", served |-> 0, failed |-> FALSE]
    /\ rb = IdleReport
    /\ widget = InitialWidget
    /\ polls = [i \in 1..MaxPolls |-> IdlePoll]
    /\ env = [present |-> TRUE, base64 |-> TRUE, bytes |-> 32]
    /\ rq = IdleRequest
    /\ sessions = InitialSessions
    /\ sr = [r \in SessionRequests |-> IdleSession]
    /\ obs = InitialObs
    /\ og = [r \in ObsRequests |-> IdleObs]
    /\ tbl = [rows |-> {}, wrote |-> NULL, conflict |-> FALSE, statements |-> 0]
    /\ me = IdleMe

NextMe ==
    \/ MeBegin
    \/ MeSelect
    \/ MeCacheUpdatedAt
    \/ MeRespond
    \/ \E q \in LoadProcs :
          \/ CacheSelect(q)
          \/ CacheHeal(q)
          \/ DecryptPat(q)
          \/ FetchCurrentUser(q)
          \/ FetchPremiumUsage(q)
          \/ SaveCache(q)
    \/ DisconnectBegin
    \/ DisconnectClear
    \/ DisconnectDeleteCache

SpecMe == InitMe /\ [][NextMe]_vars

\* getDaysRemainingInMonth on every day of a leap year, of common years
\* and of the century years 2000 and 2100
CalendarYears == {2000, 2023, 2024, 2100}
CalendarDates ==
    {d \in [year : CalendarYears, month : 0..11, day : 1..31] :
        d.day <= DaysInMonth(d.year, d.month)}

InitCalendar ==
    /\ ServerAtRest
    /\ \E d \in CalendarDates : rb = [IdleReport EXCEPT !.referenceDate = d]
    /\ widget = InitialWidget
    /\ polls = [i \in 1..MaxPolls |-> IdlePoll]
    /\ env = [present |-> TRUE, base64 |-> TRUE, bytes |-> 32]
    /\ rq = IdleRequest
    /\ sessions = InitialSessions
    /\ sr = [r \in SessionRequests |-> IdleSession]
    /\ obs = InitialObs
    /\ og = [r \in ObsRequests |-> IdleObs]
    /\ tbl = [rows |-> {}, wrote |-> NULL, conflict |-> FALSE, statements |-> 0]
    /\ me = IdleMe

NextCalendar == DaysRemainingCall

SpecCalendar == InitCalendar /\ [][NextCalendar]_vars

\* saveDataCache and deleteCache statements of two users in any order,
\* on a table that may hold a row of another payload version
InitTable ==
    /\ ServerAtRest
    /\ rb = IdleReport
    /\ widget = InitialWidget
    /\ polls = [i \in 1..MaxPolls |-> IdlePoll]
    /\ env = [present |-> TRUE, base64 |-> TRUE, bytes |-> 32]
    /\ rq = IdleRequest
    /\ sessions = InitialSessions
    /\ sr = [r \in SessionRequests |-> IdleSession]
    /\ obs = InitialObs
    /\ og = [r \in ObsRequests |-> IdleObs]
    /\ \E rows \in SUBSET {OtherVersionRow(u) : u \in CacheUsers} :
          tbl = [rows |-> rows, wrote |-> NULL, conflict |-> FALSE, statements |-> 0]
    /\ me = IdleMe

NextTable ==
    \E userId \in CacheUsers :
        \/ SaveDataCacheRun(userId)
        \/ DeleteCacheRun(userId)

SpecTable == InitTable /\ [][NextTable]_vars

\* requests with session cookies, logins and logouts, while time passes
NextSession ==
    \/ \E r \in SessionRequests :
          \/ SessionRequest(r)
          \/ SessionHash(r)
          \/ SessionSelect(r)
          \/ SessionDelete(r)
          \/ CreateSessionPurge(r)
          \/ CreateSessionInsert(r)
    \/ Tick(SessionTickSteps, MaxTicks)

SpecSession == InitReport /\ [][NextSession]_vars

\* the OBS link regenerated while widgets poll with old and new links
NextObs ==
    \E r \in ObsRequests :
        \/ RegenerateBegin(r)
        \/ RegenerateUpdate(r)
        \/ ObsDataRequest(r)
        \/ ObsDataSelect(r)

SpecObs == InitReport /\ [][NextObs]_vars

----------------------------------------------------------------------------
(* Token lifecycle properties, under SpecAuth                               *)

\* A call that has answered with an access token it took from a stored
\* bundle (the first read or the re-read).
HandedOutFrom(p, bundle) ==
    /\ gh[p].pc = "done"
    /\ ~IsNull(bundle)
    /\ Val(gh[p].result).kind = "token"
    /\ Val(gh[p].result).token = Val(bundle).accessToken

\* C1: a stored bundle whose authInvalidAt is set is never handed out as a
\* valid token: no call, overlapping ones included, answers with the access
\* token of a bundle it read with authInvalidAt set.
C1_InvalidBundleNeverHandedOut ==
    \A p \in Callers :
        /\ HandedOutFrom(p, gh[p].bundle) /\ IsNull(gh[p].refreshed)
              => ~isGitHubAuthMarkedInvalid(Val(gh[p].bundle))
        /\ HandedOutFrom(p, gh[p].rereadBundle)
              => ~isGitHubAuthMarkedInvalid(Val(gh[p].rereadBundle))

\* Two overlapping calls that read the same expired bundle and each sent one
\* refresh request, one of which GitHub granted; nobody re-authorized or
\* revoked meanwhile and no request failed on the way.
RefreshRaceOver ==
    /\ \A p \in Callers : gh[p].pc = "done" /\ gh[p].requests = 1
    /\ gh[1].bundle = gh[2].bundle
    /\ \E p \in Callers : ~IsNull(gh[p].refreshed)
    /\ \A p \in Callers :
          IsNull(gh[p].error) \/ Val(gh[p].error) = BadRefreshToken
    /\ cb = IdleCallback
    /\ github.accepted # {}

\* The stored bundle is exactly what the refresh of call p saved.
StoredBundleIsRefreshOf(p) ==
    /\ ~IsNull(gh[p].refreshed)
    /\ LET bundle == Val(loadGitHubTokenBundle(users))
           refreshed == Val(gh[p].refreshed)
       IN  /\ bundle.accessToken = Some(refreshed.accessToken)
           /\ bundle.refreshToken = Some(refreshed.refreshToken)
           /\ bundle.accessTokenExpiresAt =
                  Some(getAbsoluteExpiryTimestamp(gh[p].now,
                           refreshed.accessTokenExpiresInSeconds))
           /\ bundle.refreshTokenExpiresAt =
                  Some(getAbsoluteExpiryTimestamp(gh[p].now,
                           refreshed.refreshTokenExpiresInSeconds))

\* C3: when two calls run concurrently on an expired bundle whose refresh
\* token is valid, each of them returns a valid access token, and the bundle
\* stored at the end is exactly the result of one of the refreshes, without
\* authInvalidAt.
C3_RefreshRaceBothSucceed ==
    RefreshRaceOver =>
        /\ \A p \in Callers :
              /\ Val(gh[p].result).kind = "token"
              /\ ~IsNull(Val(gh[p].result).token)
        /\ \E p \in Callers : StoredBundleIsRefreshOf(p)
        /\ IsNull(users.github_auth_invalid_at)

\* C10: once a permanent rejection has set authInvalidAt, every later call
\* (one whose first read finds authInvalidAt set) fails at once with
\* GITHUB_TOKEN_INVALID and sends no refresh request.
C10_InvalidStateFailsFast ==
    \A p \in Callers :
        ( /\ gh[p].pc = "done"
          /\ ~IsNull(gh[p].bundle)
          /\ isGitHubAuthMarkedInvalid(Val(gh[p].bundle)) )
        => /\ gh[p].result = TokenThrown(createGitHubTokenInvalidError)
           /\ gh[p].requests = 0

----------------------------------------------------------------------------
(* Orchestrator and cache properties, under Spec                            *)

C4_FreshCacheShortCircuit ==
    \A q \in LoadProcs :
        (ld[q].pc # "idle" /\ ~IsNull(ld[q].cached) /\ Val(ld[q].cached).isFresh) =>
            /\ ld[q].pc = "done"
            /\ ld[q].result = Returned(Val(ld[q].cached).payload, "cache_hit")
            /\ ld[q].decrypts = 0
            /\ ld[q].fetches = 0
            /\ ld[q].writes = 0
            /\ ld[q].deletes = 0

\* a call with a usable credential answered from the fresh entry
C4_Witness ==
    \E q \in LoadProcs :
        /\ ld[q].pc = "done"
        /\ hasValidPatCredentials(Val(ld[q].input))
        /\ ~IsNull(ld[q].cached)
        /\ Val(ld[q].cached).isFresh
        /\ Val(ld[q].result).source = "cache_hit"
        /\ ~IsNull(usage_cache)

\* C5: when the entry is not fresh and there is no usable credential,
\* loadData returns the stale entry as cache_stale_fallback if it read one
\* and null otherwise, without a call upstream and without an error.
C5_NoCredentialFallback ==
    \A q \in LoadProcs :
        ( /\ ld[q].pc \notin {"idle", "select", "heal"}
          /\ ~hasValidPatCredentials(Val(ld[q].input))
          /\ ~(~IsNull(ld[q].cached) /\ Val(ld[q].cached).isFresh) )
        => /\ ld[q].pc = "done"
           /\ IF ~IsNull(ld[q].cached)
              THEN ld[q].result =
                       Returned(Val(ld[q].cached).payload, "cache_stale_fallback")
              ELSE ld[q].result = ReturnedNull
           /\ IsNull(ld[q].error)
           /\ ld[q].decrypts = 0
           /\ ld[q].fetches = 0
           /\ ld[q].writes = 0

\* a call without credential answered from the stale entry
C5_Witness ==
    \E q \in LoadProcs :
        /\ ld[q].pc = "done"
        /\ ~hasValidPatCredentials(Val(ld[q].input))
        /\ ~IsNull(ld[q].cached)
        /\ ~Val(ld[q].cached).isFresh
        /\ Val(ld[q].result).source = "cache_stale_fallback"

\* The row of usage_cache, as loadCachedData would read it at instant `now`.
ReadNow(row, now) ==
    IF IsNull(row) \/ RowIsCorrupt(Val(row))
    THEN NULL
    ELSE Some(CachedData(Val(row), now))

\* C6: a successful live computation writes the cache row and returns the
\* payload as github_live; while that row stays in place and is within the
\* 5-minute lifetime, the next loadData returns the same payload as
\* cache_hit.
C6_LiveWriteThenCacheHit ==
    [][\A q \in LoadProcs :
          /\ (ld[q].pc = "save" /\ ld'[q].pc = "done" /\ IsNull(ld'[q].error)) =>
                /\ ld'[q].result = Returned(Val(ld[q].livePayload), "github_live")
                /\ ~IsNull(usage_cache')
                /\ Val(usage_cache').payload_json =
                       JsonStringify(Val(ld[q].livePayload))
          /\ \A r \in LoadProcs \ {q} :
                ( /\ ld[q].pc = "done"
                  /\ Val(ld[q].result).source = "github_live"
                  /\ ~IsNull(usage_cache)
                  /\ Val(usage_cache).payload_json =
                         JsonStringify(Val(Val(ld[q].result).payload))
                  /\ clock - Val(usage_cache).updated_at <= 5 * 60 * 1000
                  /\ ld[r].pc = "select"
                  /\ ld'[r].pc # "select" )
                => ld'[r].result =
                       Returned(Val(Val(ld[q].result).payload), "cache_hit")
    ]_vars

\* one call answered github_live, the next one cache_hit with its payload
C6_Witness ==
    \E q \in LoadProcs : \E r \in LoadProcs \ {q} :
        /\ ld[q].pc = "done"
        /\ Val(ld[q].result).source = "github_live"
        /\ ld[r].pc = "done"
        /\ Val(ld[r].result).source = "cache_hit"
        /\ Val(ld[r].result).payload = Val(ld[q].result).payload
        /\ ~IsNull(usage_cache)
        /\ Val(usage_cache).payload_json =
               JsonStringify(Val(Val(ld[q].result).payload))

C8_StalenessBoundary ==
    [][\A q \in LoadProcs :
          ( /\ ld[q].pc = "select"
            /\ ld'[q].pc # "select"
            /\ ~IsNull(ld'[q].cached) )
          => LET t == Val(usage_cache).updated_at
                 entry == Val(ld'[q].cached)
             IN  /\ entry.updatedAt = t
                 /\ entry.isFresh <=> (clock - t <= 5 * 60 * 1000)
                 /\ clock = t + 5 * 60 * 1000 - 1 => entry.isFresh
                 /\ clock = t + 5 * 60 * 1000 => entry.isFresh
                 /\ clock = t + 5 * 60 * 1000 + 1 => ~entry.isFresh
    ]_vars

\* an entry read fresh exactly 5 minutes after its update time
C8_Witness ==
    \E q \in LoadProcs :
        /\ ld[q].pc = "done"
        /\ ~IsNull(ld[q].cached)
        /\ Val(ld[q].cached).isFresh
        /\ clock = Val(ld[q].cached).updatedAt + 5 * 60 * 1000
        /\ Val(ld[q].result).source = "cache_hit"

\* A row loadCachedData must not use: wrong version, an update time that is
\* not positive, a text that is not JSON or a payload the schema rejects.
UnusableRow(row) ==
    \/ row.payload_version # 1
    \/ row.updated_at <= 0
    \/ ~row.payload_json.valid
    \/ \E k \in {"title", "dailyTarget", "todayAvailable", "display",
                 "daysRemaining", "monthRemaining", "updatedAt"} :
           k \notin DOMAIN row.payload_json.object

\* C9: a read that finds an unusable row deletes it and returns null without
\* raising, so loadData goes on as if nothing were cached; a read that finds
\* no row returns null.
C9_CorruptRowSelfHeals ==
    [][\A q \in LoadProcs :
          /\ ( /\ ld[q].pc = "select"
               /\ ld'[q].pc # "select"
               /\ ~IsNull(usage_cache)
               /\ UnusableRow(Val(usage_cache)) )
             => /\ ld'[q].pc = "heal"
                /\ IsNull(ld'[q].result)
          /\ (ld[q].pc = "heal" /\ ld'[q].pc # "heal")
             => /\ IsNull(usage_cache')
                /\ IsNull(ld'[q].cached)
                /\ IsNull(ld'[q].error)
                /\ ld'[q].deletes = 1
                /\ ~IsNull(ld'[q].result) => Val(ld'[q].result).kind = "null"
          /\ ( /\ ld[q].pc = "select"
               /\ ld'[q].pc # "select"
               /\ IsNull(usage_cache) )
             => /\ IsNull(ld'[q].cached)
                /\ ld'[q].pc # "heal"
    ]_vars

\* one read has deleted an unusable row and the next read has found nothing
C9_Witness ==
    \E q \in LoadProcs : \E r \in LoadProcs \ {q} :
        /\ ld[q].deletes = 1
        /\ ld[q].pc \in {"decrypt", "done"}
        /\ IsNull(ld[q].cached)
        /\ IsNull(usage_cache)
        /\ ld[r].pc \in {"decrypt", "done"}
        /\ ld[r].deletes = 0
        /\ IsNull(ld[r].cached)

----------------------------------------------------------------------------
(* Reconnect state, under SpecAuth                                          *)

\* C11: once github_auth_invalid_at is set it stays set whatever the
\* getValidGitHubAccessTokenForUser calls do; only the authorization
\* callback storing a new bundle clears it, never an automatic refresh.
C11_NeedsReconnectIsTerminal ==
    [][( /\ ~IsNull(users.github_auth_invalid_at)
         /\ IsNull(users'.github_auth_invalid_at) )
       => (cb.pc = "save" /\ cb'.pc = "purge")
    ]_vars

\* A settings change, an authorization callback or a disconnect answers ok.
ChangeCompletes ==
    \/ web.pc = "purge" /\ web'.pc = "idle"
    \/ web.pc = "unlink" /\ web'.pc = "idle"
    \/ cb.pc = "purge" /\ cb'.pc = "idle"

\* One of them has answered ok.
ChangeDone ==
    \/ web.completed \in {"settings", "disconnect"}
    \/ cb.served > 0

\* C12: when PUT /api/settings, the GitHub callback or the disconnect
\* completes successfully the user's usage_cache row is gone, so a
\* loadData that reads the cache afterwards, no other load having written
\* in between, does not answer cache_hit from a row older than the change.
C12_ChangeInvalidatesCache ==
    [][ /\ ChangeCompletes => IsNull(usage_cache')
        /\ (ChangeDone /\ ld[1].pc = "select" /\ ld'[1].pc # "select")
           => \/ IsNull(ld'[1].result)
              \/ Val(ld'[1].result).source # "cache_hit"
      ]_vars

\* The settings were changed, and the load that followed fetched live.
C12_Witness ==
    /\ web.completed = "settings"
    /\ account.monthly_quota = Some(500)
    /\ ld[1].pc = "done"
    /\ ld[1].fetches > 0
    /\ Val(ld[1].result).source = "github_live"

\* C13: once DELETE /api/account has succeeded the user has no token
\* bundle, no usage_cache row and no session, and the requests that were
\* in flight bring none of them back: their later writes touch no row.
C13_DeletedAccountLeavesNothing ==
    ~account.exists =>
        /\ users = DisconnectedRow
        /\ IsNull(loadGitHubTokenBundle(users))
        /\ IsNull(usage_cache)
        /\ account.sessions = 0

\* The account is gone; the login that was in flight had its INSERT INTO
\* sessions rejected, the granted token refresh has run its UPDATE and
\* the load that had fetched has run its INSERT INTO usage_cache.
C13_Witness ==
    /\ ~account.exists
    /\ del = "done"
    /\ login.failed
    /\ gh[1].pc = "done" /\ ~IsNull(gh[1].refreshed)
    /\ ld[1].pc = "done" /\ ld[1].fetches > 0 /\ ld[1].writes = 0

\* C14: after clearGitHubConnection has completed every token column,
\* github_user_id, github_login and github_auth_invalid_at are NULL,
\* loadGitHubTokenBundle returns null, and getValidGitHubAccessTokenForUser
\* returns null without a request to GitHub; this lasts until the user
\* authorizes again.
C14_DisconnectClearsEverything ==
    (web.completed = "disconnect" /\ account.exists)
        => /\ users = DisconnectedRow
           /\ IsNull(loadGitHubTokenBundle(users))
           /\ \A p \in Callers :
                 (gh[p].pc = "done" /\ gh[p].reads > 0 /\ gh[p].requests = 0)
                    => gh[p].result = TokenNull

\* The builder has returned a report.
Reported == rb.pc = "done" /\ ~IsNull(rb.report)

C18_FailureClassification ==
    /\ rb.userCalls <= 1 /\ rb.monthCalls <= 1 /\ rb.dayCalls <= 1
    /\ (rb.pc = "done" /\ ~IsNull(rb.failure)) =>
          rb.error = CASE Val(rb.failure).status = 401 -> "GITHUB_TOKEN_INVALID"
                       [] Val(rb.failure).status = 403 -> "GITHUB_FORBIDDEN"
                       [] Val(rb.failure).status = 429 -> "GITHUB_RATE_LIMITED"
                       [] OTHER -> "GITHUB_NETWORK_ERROR"
    /\ (rb.pc = "done" /\ IsNull(rb.failure)) => ~IsNull(rb.report)

\* A reply that is a success with both texts: a 2xx status and a body
\* whose display and title are non-empty strings.
GoodReply(r) ==
    /\ r.kind = "response"
    /\ r.status >= 200 /\ r.status <= 299
    /\ ~IsNull(r.display) /\ Val(r.display).type = "string" /\ Val(r.display).text # ""
    /\ ~IsNull(r.title) /\ Val(r.title).type = "string" /\ Val(r.title).text # ""

\* What the page may show: what it was served with, the placeholder with
\* the default title, or the title and the display of one good reply.
ShowsWhole(page) ==
    \/ page.title = "" /\ page.value = ""
    \/ page.title = DEFAULT_TITLE /\ page.value = FALLBACK_VALUE
    \/ \E r \in ObsReplies :
          /\ GoodReply(r)
          /\ page.title = Val(r.title).text
          /\ page.value = Val(r.display).text

\* C19: the widget never shows a raw error or partial data. A poll whose
\* request fails, whose status is not 2xx or whose body lacks a non-empty
\* display or title string ends with the placeholder value and the default
\* title on the page; a title and a display are shown only as the pair of
\* one successful response.
C19_WidgetShowsPlaceholderOrPair ==
    [][ /\ ShowsWhole(widget')
        /\ \A i \in 1..MaxPolls :
             (polls[i].pc # "done" /\ polls'[i].pc = "done") =>
                LET r == polls'[i].reply
                IN  IF GoodReply(r)
                    THEN /\ widget'.title = Val(r.title).text
                         /\ widget'.value = Val(r.display).text
                    ELSE /\ widget'.title = DEFAULT_TITLE
                         /\ widget'.value = FALLBACK_VALUE
      ]_vars

\* The first poll brought a pair; the second brought a display without a
\* title, and the page shows the placeholder.
C19_Witness ==
    /\ polls[1].pc = "done" /\ GoodReply(polls[1].reply)
    /\ polls[2].pc = "done"
    /\ polls[2].reply = ObsReply(200, "object", Str("2/12"), NULL)
    /\ widget.title = DEFAULT_TITLE
    /\ widget.value = FALLBACK_VALUE

\* C20: key validation is fail-fast. When the encryption key is absent or
\* does not decode to exactly 32 bytes the configuration error is raised
\* before any request handling: no request has made an upstream network
\* call or a database write when the key error is raised.
C20_KeyErrorBeforeAnyEffect ==
    rq.keyError => (rq.networkCalls = 0 /\ rq.dbWrites = 0)

----------------------------------------------------------------------------
(* The endpoints over loadData and over lib/auth                            *)

\* GET /api/obs-data, lines 867-898: the response made of what loadData
\* gave: its payload as JSON, 404 for null, an error response for a throw.
obsDataResponse(result) ==
    CASE Val(result).kind = "value" ->
            [ok |-> TRUE, code |-> "", body |-> Val(result).payload]
      [] Val(result).kind = "null" ->
            [ok |-> FALSE, code |-> "NOT_FOUND", body |-> NULL]
      [] OTHER ->
            [ok |-> FALSE, code |-> Val(result).error, body |-> NULL]

\* C21: for GET /api/obs-data, when the cache entry is stale or missing and
\* the GitHub fetch fails, the endpoint answers with an error response and
\* does not fall back to the stale entry.
C21_NoStaleFallbackOnObsData ==
    \A q \in LoadProcs :
        ( /\ ld[q].pc = "done"
          /\ ld[q].fetches > 0 /\ ~IsNull(ld[q].error)
          /\ (IsNull(ld[q].cached) \/ ~Val(ld[q].cached).isFresh) )
        => ~obsDataResponse(ld[q].result).ok

\* C22: a getSessionUser that runs its SELECT after a logout for the same
\* token was processed returns null, and a getSessionUser that returns a
\* user matched a session row whose expires_at is later than the call's now.
C22_LoggedOutOrExpiredIsNull ==
    [][\A r \in SessionRequests :
          (sr[r].pc = "select" /\ sr'[r].pc = "done") =>
             /\ (\E l \in SessionRequests :
                    /\ sr[l].kind = "logout" /\ sr[l].pc = "done"
                    /\ sr[l].token = sr[r].token)
                => IsNull(sr'[r].user)
             /\ ~IsNull(sr'[r].user) =>
                  /\ Val(sr'[r].user) \in sessions.rows
                  /\ Val(sr'[r].user).token_hash = hashSessionToken(Val(sr[r].token))
                  /\ Val(sr'[r].user).expires_at > sr[r].now
             /\ (\A row \in sessions.rows :
                    row.token_hash = hashSessionToken(Val(sr[r].token))
                    => row.expires_at <= sr[r].now)
                => IsNull(sr'[r].user)]_vars

\* a request with the token of the first session got the user, a logout
\* deleted the session, and a later request with the same token got null
\* although the session had not expired
C22_Witness ==
    /\ ticks = 0
    /\ \E l, r, u \in SessionRequests :
          /\ sr[l].kind = "logout" /\ sr[l].pc = "done" /\ sr[l].token = Some(1)
          /\ sr[r].kind = "auth" /\ sr[r].pc = "done" /\ sr[r].token = Some(1)
          /\ IsNull(sr[r].user)
          /\ sr[u].kind = "auth" /\ sr[u].pc = "done" /\ ~IsNull(sr[u].user)

\* a request got null at the very millisecond its session expired
C22_WitnessExpiry ==
    \E r \in SessionRequests :
        /\ sr[r].kind = "auth" /\ sr[r].pc = "done" /\ sr[r].token = Some(1)
        /\ sr[r].now = StartClock + SESSION_MAX_AGE_SECONDS * 1000
        /\ IsNull(sr[r].user)
        /\ \A l \in SessionRequests : sr[l].kind # "logout"
        /\ \E row \in sessions.rows : row.token_hash = hashSessionToken(1)

\* The UUIDs of OBS links that GET /api/obs-data would answer with the
\* user's payload.
ValidUuids(o) == {u \in 1..o.issued : SelectByObsUuid(o, account.exists, u)}

\* C23: when POST /api/obs/regenerate completes, the new UUID is the one
\* that identifies the user and the previous one no longer does; a GET
\* /api/obs-data that looks up a UUID which a completed regenerate replaced
\* finds no user (404 NOT_FOUND); and the user has exactly one valid UUID.
C23_RegenerateRevokesOldLink ==
    [][/\ \A r \in ObsRequests :
            (og[r].pc = "update" /\ og'[r].pc = "done") =>
               /\ ValidUuids(obs') = {og[r].uuid}
               /\ og[r].previous \notin ValidUuids(obs')
       /\ \A r \in ObsRequests :
            (og[r].pc = "select" /\ og'[r].pc = "done") =>
               /\ (\E g \in ObsRequests :
                      /\ og[g].kind = "regenerate" /\ og[g].pc = "done"
                      /\ og[g].previous = og[r].uuid)
                  => ~og'[r].found
               /\ og'[r].found <=> og[r].uuid = obs.uuid
       /\ Cardinality(ValidUuids(obs)) = 1
       /\ Cardinality(ValidUuids(obs')) = 1]_vars

\* a widget holding the first OBS link was answered 404 after a
\* regenerate had completed, and a widget holding the new link was served
C23_Witness ==
    \E g, r, n \in ObsRequests :
        /\ og[g].kind = "regenerate" /\ og[g].pc = "done" /\ og[g].previous = 1
        /\ og[r].kind = "data" /\ og[r].pc = "done" /\ og[r].uuid = 1
        /\ ~og[r].found
        /\ og[n].kind = "data" /\ og[n].pc = "done" /\ og[n].uuid = og[g].uuid
        /\ og[n].found

----------------------------------------------------------------------------
(* The token manager's decisions, call by call                              *)

\* The access token and the expiry in the users row.
StoredAccessToken ==
    decryptSecret(Val(users.github_access_token_ciphertext),
                  Val(users.github_access_token_iv))
StoredExpiresAt == Val(users.github_access_token_expires_at)

C25_RefreshPersistsAndReturns ==
    [][\A p \in Callers :
          (gh[p].pc = "save" /\ gh'[p].pc = "done") =>
             LET refreshed == Val(gh[p].refreshed)
                 stored == decryptSecret(Val(users'.github_access_token_ciphertext),
                                         Val(users'.github_access_token_iv))
             IN  /\ stored = refreshed.accessToken
                 /\ refreshed.accessToken # Val(Val(gh[p].bundle).accessToken)
                 /\ decryptSecret(Val(users'.github_refresh_token_ciphertext),
                                  Val(users'.github_refresh_token_iv))
                      = refreshed.refreshToken
                 /\ refreshed.refreshToken # Val(Val(gh[p].bundle).refreshToken)
                 /\ users'.github_access_token_expires_at
                      = Some(gh[p].now + refreshed.accessTokenExpiresInSeconds * 1000)
                 /\ users'.github_refresh_token_expires_at
                      = Some(gh[p].now + refreshed.refreshTokenExpiresInSeconds * 1000)
                 /\ users'.github_auth_invalid_at = NULL
                 /\ gh'[p].writes = 1
                 /\ gh'[p].result = TokenReturned(Some(stored))]_vars

\* a call refreshed and returned the pair GitHub issued second, and its
\* write cleared the mark the other call had set in between
C25_Witness ==
    \E p, q \in Callers :
        /\ gh[p].pc = "done" /\ gh[p].writes = 1
        /\ gh[p].result = TokenReturned(Some(AccessToken(2)))
        /\ StoredAccessToken = AccessToken(2)
        /\ gh[q].pc = "done" /\ gh[q].writes = 1
        /\ Val(gh[q].result).kind = "throw"
        /\ IsNull(users.github_auth_invalid_at)

\* The refresh failures in which the authorization server reported nothing
\* about the grant: the request did not get through, or a 5xx came back.
NetworkOrServerFailures == {FetchRejected, ServerUnavailable, GatewayExpired}

\* C29: a call whose refresh failed with a network failure or a 5xx never
\* goes on to set github_auth_invalid_at, whatever the response body says.
C29_OnlyGrantErrorsArePermanent ==
    \A p \in Callers :
        (~IsNull(gh[p].error) /\ Val(gh[p].error) \in NetworkOrServerFailures)
        => /\ gh[p].pc # "mark"
           /\ gh[p].writes = 0

\* C26: a call whose refresh failed with a network failure or a 5xx reads
\* the bundle a second and last time; if the access token it then finds
\* expires more than 60 s after the re-read's now the call returns that
\* token, otherwise it throws the error the refresh failed with.
C26_TransientFailureRereadsOnce ==
    [][\A p \in Callers :
          ( /\ gh[p].pc = "reread" /\ gh'[p].pc # "reread"
            /\ Val(gh[p].error) \in NetworkOrServerFailures ) =>
             /\ gh[p].reads = 1 /\ gh'[p].reads = 2
             /\ gh'[p].pc = "done"
             /\ gh'[p].result =
                  IF StoredExpiresAt > gh[p].rereadNow + 60 * 1000
                  THEN TokenReturned(Some(StoredAccessToken))
                  ELSE TokenThrown(Val(gh[p].error))]_vars

\* C27: a call that ends by throwing the error its refresh failed with has
\* written nothing: the step that ends it leaves the users row as it was,
\* the call ran no UPDATE before, and the row changes only in a step in
\* which some call runs its UPDATE.
C27_PropagatedFailureWritesNothing ==
    [][/\ \A p \in Callers :
            ( /\ gh[p].pc # "done" /\ gh'[p].pc = "done"
              /\ ~IsNull(gh'[p].error)
              /\ gh'[p].result = TokenThrown(Val(gh'[p].error)) ) =>
               /\ users' = users
               /\ gh'[p].writes = 0
       /\ users' # users =>
             \E p \in Callers :
                 /\ gh[p].pc \in {"save", "mark"}
                 /\ gh'[p].writes = gh[p].writes + 1]_vars

\* a call threw the 503 its refresh met, and the row is the one it found
C27_Witness ==
    \E p \in Callers :
        /\ gh[p].pc = "done"
        /\ gh[p].result = TokenThrown(ServerUnavailable)
        /\ loadGitHubTokenBundle(users) = gh[p].bundle
        /\ gh[p].rereadBundle = gh[p].bundle

\* C28: a call whose refresh GitHub rejected with bad_refresh_token ends
\* by a step that sets github_auth_invalid_at to the call's now, changes
\* no other column, and throws GITHUB_TOKEN_INVALID; it returns no token.
C28_PermanentRejectionMarksInvalid ==
    [][\A p \in Callers :
          ( /\ gh[p].error = Some(BadRefreshToken)
            /\ gh[p].pc # "done" /\ gh'[p].pc = "done" ) =>
             /\ gh'[p].result = TokenThrown(createGitHubTokenInvalidError)
             /\ users' = [users EXCEPT !.github_auth_invalid_at = Some(gh[p].now)]]_vars

\* C28, amended: a call whose refresh GitHub rejected with
\* bad_refresh_token reads the bundle once more. If the access token it
\* finds expires more than 60 s after the re-read's now, the call returns
\* that token and writes nothing. Otherwise its next step sets
\* github_auth_invalid_at to the call's now, changes no other column, and
\* throws GITHUB_TOKEN_INVALID.
C28_RejectionMarksUnlessRereadFresh ==
    [][\A p \in Callers :
          (gh[p].error = Some(BadRefreshToken) /\ gh'[p] # gh[p]) =>
             \/ /\ gh[p].pc = "reread"
                /\ StoredExpiresAt > gh[p].rereadNow + 60 * 1000
                /\ gh'[p].pc = "done"
                /\ gh'[p].result = TokenReturned(Some(StoredAccessToken))
                /\ gh'[p].writes = 0
                /\ users' = users
             \/ /\ gh[p].pc = "reread"
                /\ StoredExpiresAt <= gh[p].rereadNow + 60 * 1000
                /\ gh'[p].pc = "mark"
                /\ users' = users
             \/ /\ gh[p].pc = "mark"
                /\ gh'[p].pc = "done"
                /\ gh'[p].result = TokenThrown(createGitHubTokenInvalidError)
                /\ users' = [users EXCEPT !.github_auth_invalid_at = Some(gh[p].now)]
             \/ /\ gh[p].pc = "done"
                /\ gh'[p] = IdleCall]_vars

\* a call that GitHub answered bad_refresh_token threw GITHUB_TOKEN_INVALID
\* and the row carries the call's now as github_auth_invalid_at, its
\* tokens and expiries being those the call had read
C28_Witness ==
    \E p \in Callers :
        /\ gh[p].pc = "done"
        /\ gh[p].error = Some(BadRefreshToken)
        /\ gh[p].result = TokenThrown(createGitHubTokenInvalidError)
        /\ users.github_auth_invalid_at = Some(gh[p].now)
        /\ loadGitHubTokenBundle(users) =
              Some([Val(gh[p].bundle) EXCEPT !.authInvalidAt = Some(gh[p].now)])

\* C30: a call sends at most one refresh request and reads the bundle at
\* most twice, two overlapping calls send at most two refresh requests
\* between them, and every call that has begun comes to its end with a
\* token, null or an error.
C30_BoundedWorkAndTermination ==
    /\ [](\A p \in Callers : gh[p].requests <= 1 /\ gh[p].reads <= 2)
    /\ [](gh[1].requests + gh[2].requests <= 2)
    /\ \A p \in Callers :
          (gh[p].pc # "idle") ~> (gh[p].pc = "done" /\ ~IsNull(gh[p].result))

\* both calls found the same expired bundle and each sent its one refresh
\* request; both are over, one of them after a second read
C30_Witness ==
    /\ \A p \in Callers : gh[p].pc = "done" /\ gh[p].requests = 1
    /\ gh[1].bundle = gh[2].bundle
    /\ \E p \in Callers : gh[p].reads = 2

----------------------------------------------------------------------------
(* The cache under concurrent requests                                      *)

RowsOf(userId) == {r \in tbl.rows : r.user_id = userId}

\* C31: the table holds at most one row per user; after a saveDataCache
\* statement the user's row is exactly the row the statement bound
\* (payload, updated_at and payload_version all of that write), the rows
\* of other users are untouched by it, and running the same statement
\* again changes nothing.
C31_OneEntryPerUserLastWriteWins ==
    /\ \A u \in CacheUsers : Cardinality(RowsOf(u)) <= 1
    /\ ~IsNull(tbl.wrote) =>
          /\ RowsOf(Val(tbl.wrote).user_id) = {Val(tbl.wrote)}
          /\ Upsert(tbl.rows, Val(tbl.wrote)) = tbl.rows

\* a saveDataCache statement replaced a row of another payload version,
\* while the other user's row stayed
C31_Witness ==
    /\ tbl.wrote = Some(TableRow(1, EarlierPayload, StartClock))
    /\ tbl.conflict
    /\ OtherVersionRow(2) \in tbl.rows
    /\ Cardinality(tbl.rows) = 2

\* C32: for every UTC calendar date getDaysRemainingInMonth gives the days
\* of the month minus the day of the month plus one, an integer in 1..31
\* that is 1 on the last day of the month, so that the quotient that
\* makes dailyTarget has a denominator other than zero.
C32_DaysRemainingInRange ==
    rb.pc = "counted" =>
       LET d == rb.referenceDate
           daysRemaining == Val(rb.report).daysRemaining
           lastDay == CHOOSE n \in 28..31 :
                         /\ [d EXCEPT !.day = n] \in CalendarDates
                         /\ [d EXCEPT !.day = n + 1] \notin CalendarDates
       IN  /\ daysRemaining = lastDay - d.day + 1
           /\ daysRemaining \in 1..31
           /\ d.day = lastDay <=> daysRemaining = 1
           /\ unroundedDailyTarget(300, 0, 0, daysRemaining).den # 0

\* the count on 28 February 2100, the last day of that month
C32_Witness ==
    /\ rb.pc = "counted"
    /\ rb.referenceDate = [year |-> 2100, month |-> 1, day |-> 28]
    /\ Val(rb.report).daysRemaining = 1

\* The columns of the users row that hold the tokens and their expiries.
TokenColumns ==
    {"github_access_token_ciphertext", "github_access_token_iv",
     "github_access_token_expires_at", "github_refresh_token_ciphertext",
     "github_refresh_token_iv", "github_refresh_token_expires_at"}

\* C33: once POST /api/auth/github/disconnect has completed and the
\* getValidGitHubAccessTokenForUser calls that were in flight have
\* finished, with no new authorization since, every token column of the
\* user is NULL.
C33_DisconnectNotUndoneByInFlightWork ==
    ( /\ web.completed = "disconnect" /\ account.exists
      /\ cb.pc = "idle" /\ cb.served = 0
      /\ \A p \in Callers : gh[p].pc \in {"idle", "done"} )
    => \A c \in TokenColumns : IsNull(users[c])

\* The payload is one that buildDataFromGitHub derives from the quota and
\* the title the users row holds now, for some usage GitHub reports.
ComputedFromSettings(payload, acc) ==
    /\ payload.title = normalizeObsTitle(acc.obs_title)
    /\ \E r \in {u \in UsageResponses : u.status = 200} :
          LET dailyTarget ==
                  unroundedDailyTarget(Val(acc.monthly_quota), r.spentThisMonth,
                                       r.spentToday, payload.daysRemaining)
          IN  payload.dailyTarget = roundRequests(dailyTarget.num, dailyTarget.den)

\* C34: once PUT /api/settings has completed, a loadData that the handler
\* called with the new settings and that finds a fresh cache entry returns
\* as cache_hit a payload computed from the new quota and title.
C34_InvalidationNotDefeated ==
    [][\A q \in LoadProcs :
          ( /\ ld[q].pc = "select" /\ ld'[q].pc = "done"
            /\ web.completed = "settings"
            /\ Val(ld[q].input).monthlyQuota = Val(account.monthly_quota)
            /\ Val(ld[q].input).title = normalizeObsTitle(account.obs_title)
            /\ Val(ld'[q].result).kind = "value"
            /\ Val(ld'[q].result).source = "cache_hit" )
          => ComputedFromSettings(Val(Val(ld'[q].result).payload), account)]_vars

\* C35: the deleteCache of loadCachedData, which follows the read of a
\* corrupt row, removes no sound entry: a row that is not corrupt when
\* the delete runs is still in the cache after it.
C35_SelfHealRemovesOnlyCorruptRow ==
    [][\A q \in LoadProcs :
          ( /\ ld[q].pc = "heal" /\ ld'[q].pc # "heal"
            /\ ~IsNull(usage_cache)
            /\ ~RowIsCorrupt(Val(usage_cache)) )
          => usage_cache' = usage_cache]_vars

\* C36: loadData answers github_live only in the step in which the cache
\* write of that payload completed; when the upstream calls succeeded and
\* the write fails, the cache is left as it was and the call answers with
\* the stale entry it read, as cache_stale_fallback, or raises the write
\* error when it read none.
C36_LiveOnlyAfterCacheWrite ==
    [][\A q \in LoadProcs :
          /\ ( /\ ld'[q].result # ld[q].result
               /\ ~IsNull(ld'[q].result)
               /\ Val(ld'[q].result).source = "github_live" )
             => /\ ld[q].pc = "save"
                /\ ld'[q].writes = ld[q].writes + 1
                /\ IsNull(ld'[q].error)
                /\ ~IsNull(usage_cache')
                /\ Val(usage_cache').payload_json =
                       JsonStringify(Val(Val(ld'[q].result).payload))
          /\ ( /\ ld[q].pc = "save"
               /\ ld'[q].pc = "done"
               /\ ld'[q].writes = ld[q].writes )
             => /\ usage_cache' = usage_cache
                /\ ld'[q].error = Some("D1_ERROR")
                /\ ld'[q].result =
                       IF ~IsNull(ld[q].cached)
                       THEN Returned(Val(ld[q].cached).payload, "cache_stale_fallback")
                       ELSE Thrown("D1_ERROR")
    ]_vars

\* the upstream calls succeeded, the write failed, the stale entry answered
C36_Witness ==
    \E q \in LoadProcs :
        /\ ld[q].pc = "done"
        /\ ld[q].fetches = 3
        /\ ~IsNull(ld[q].livePayload)
        /\ ld[q].writes = 0
        /\ ld[q].error = Some("D1_ERROR")
        /\ Val(ld[q].result).source = "cache_stale_fallback"

\* the same failure with no entry read: the write error is raised
C36_WitnessRaised ==
    \E q \in LoadProcs :
        /\ ld[q].pc = "done"
        /\ ld[q].fetches = 3
        /\ IsNull(ld[q].cached)
        /\ ld[q].result = Thrown("D1_ERROR")

\* C37: every cache row loadData writes has updated_at equal to the instant
\* of its payload's updatedAt, and that instant is the reference instant of
\* the call, captured before the credential is decrypted and before any
\* upstream request and kept until the write; it is not the time of the
\* write.
C37_RowStampedWithReferenceInstant ==
    [][\A q \in LoadProcs :
          /\ (ld[q].pc = "save" /\ ld'[q].writes = ld[q].writes + 1)
             => /\ ~IsNull(usage_cache')
                /\ Val(usage_cache').updated_at =
                       DateParse(JsonParse(Val(usage_cache').payload_json).updatedAt)
                /\ Val(usage_cache').updated_at = Val(ld[q].referenceDate)
          /\ (IsNull(ld[q].referenceDate) /\ ~IsNull(ld'[q].referenceDate))
             => /\ ld'[q].decrypts = 0
                /\ ld'[q].fetches = 0
                /\ Val(ld'[q].referenceDate) =
                       IF IsNull(Val(ld[q].input).now)
                       THEN clock
                       ELSE Val(Val(ld[q].input).now)
          /\ (~IsNull(ld[q].referenceDate) /\ ld'[q].pc # "idle")
             => ld'[q].referenceDate = ld[q].referenceDate
    ]_vars

\* a row written later than the reference instant of its call, which was
\* the clock at that time
C37_Witness ==
    \E q \in LoadProcs :
        /\ ld[q].pc = "done"
        /\ IsNull(Val(ld[q].input).now)
        /\ Val(ld[q].result).source = "github_live"
        /\ ~IsNull(usage_cache)
        /\ Val(usage_cache).payload_json =
               JsonStringify(Val(Val(ld[q].result).payload))
        /\ Val(usage_cache).updated_at = Val(ld[q].referenceDate)
        /\ Val(usage_cache).updated_at < clock

\* C38: GET /api/obs-data returns no usage payload for a user whose
\* monthly quota is not configured or who has no stored refresh token: the
\* request that reads such a row is answered 404 NOT_FOUND without a cache
\* read, a decryption, an upstream request or a cache write, and every
\* request that is answered with a payload passed that check.
C38_UnconfiguredSourceNotFound ==
    [][\A q \in LoadProcs :
          /\ ( /\ ld[q].pc = "idle"
               /\ ld'[q].pc # "idle"
               /\ \/ IsNull(account.monthly_quota)
                  \/ IsNull(users.github_refresh_token_ciphertext)
                  \/ IsNull(users.github_refresh_token_iv) )
             => /\ ld'[q].pc = "done"
                /\ ld'[q].result = Thrown("NOT_FOUND")
                /\ IsNull(ld'[q].input)
                /\ IsNull(ld'[q].cached)
                /\ ld'[q].decrypts = 0
                /\ ld'[q].fetches = 0
                /\ ld'[q].writes = 0
                /\ usage_cache' = usage_cache
          /\ (ld[q].pc = "select" \/ ~IsNull(ld[q].cached)
                 \/ (~IsNull(ld[q].result) /\ Val(ld[q].result).kind = "value"))
             => ~IsNull(ld[q].input)
    ]_vars

\* a user with a quota and a cache entry but no refresh token: the request
\* was answered NOT_FOUND and the entry was not read
C38_Witness ==
    \E q \in LoadProcs :
        /\ ld[q].pc = "done"
        /\ ld[q].result = Thrown("NOT_FOUND")
        /\ IsNull(ld[q].cached)
        /\ ~IsNull(account.monthly_quota)
        /\ IsNull(users.github_refresh_token_ciphertext)
        /\ ~IsNull(usage_cache)
        /\ clock - Val(usage_cache).updated_at <= CACHE_TTL_MS

\* C39: GET /api/me does not fail because the usage resolution failed: when
\* loadData raises or returns null the response is 200 with dashboardData
\* null and the profile fields of the settings row; githubAuthStatus is
\* reconnect_required exactly when a refresh token is stored and
\* github_auth_invalid_at is set, connected when it is stored and not
\* marked, and missing otherwise.
C39_MeSurvivesFailedResolution ==
    [][( /\ me.pc # "done"
         /\ me'.pc = "done"
         /\ ~IsNull(me'.settingsRow) )
       => LET row == Val(me'.settingsRow)
              response == Val(me'.response)
              body == Val(response.body)
              stored == /\ ~IsNull(row.github_refresh_token_ciphertext)
                        /\ ~IsNull(row.github_refresh_token_iv)
              marked == ~IsNull(row.github_auth_invalid_at)
          IN  /\ response.status = 200
              /\ (me.pc = "load"
                    /\ Val(ld[Val(me.loader)].result).kind \in {"throw", "null"})
                 => IsNull(body.dashboardData)
              /\ body.githubAuthStatus =
                     IF stored /\ marked THEN "reconnect_required"
                     ELSE IF stored THEN "connected"
                     ELSE "missing"
              /\ body.githubConnected = stored
              /\ body.githubLogin = row.github_login
              /\ body.monthlyQuota = row.monthly_quota
              /\ body.obsTitle = normalizeObsTitle(row.obs_title)
    ]_vars

\* loadData raised for a user whose authorization is marked invalid: the
\* response is 200 without dashboard data and asks for a reconnect
C39_Witness ==
    /\ me.pc = "done"
    /\ me.event = "dashboard_failed"
    /\ Val(me.response).status = 200
    /\ IsNull(Val(Val(me.response).body).dashboardData)
    /\ Val(Val(me.response).body).githubAuthStatus = "reconnect_required"
    /\ ~IsNull(Val(Val(me.response).body).monthlyQuota)
====
